---- MODULE Spec2Model ----
(***************************************************************************)
(* PC-ALE-PAL radio CAT codecs (Kenwood, Elecraft, Icom CI-V, Yaesu CAT).  *)
(* One codec instance is modelled: its fields are the variables, each      *)
(* public member function is one action.  Bytes are the integers 0..255.   *)
(***************************************************************************)
EXTENDS Integers, Sequences, FiniteSets, TLC

\* ------------------------------------------------------------------ bounds
\* longest byte sequence handed to one process_response call (API runs)
MaxData == 2
\* longest partial frame the API and framing runs let the radio leave behind
MaxBuf == 3
\* longest partial frame of the framing runs (an Icom ACK frame is 6 bytes)
MaxFrame == 6
\* longest byte sequence handed to one process_response call (overflow runs)
MaxFill == 3
\* the run-length observer stops counting here (above the 256-byte guard)
StreakCap == 259

\* --------------------------------------------------------------- constants
\* std::function callbacks: None is the empty function, 1 and 2 are two
\* distinct callables a caller may register
None == 0
Callbacks == {1, 2}

Kinds == {"Kenwood", "Elecraft", "IcomCiv", "YaesuCat"}

\* overflow guard of the parse buffers: if (rx_buffer_.size() > 256)
RX_LIMIT == 256

CIV_PREAMBLE == 254
CIV_EOM == 253
CIV_CONTROLLER == 224
CIV_ACK == 251
CIV_NAK == 250
SEMICOLON == 59

\* CivCommand
CIV_SET_FREQ == 5
CIV_SET_MODE == 6
CIV_PTT == 28
\* YaesuCommand
YAESU_SET_FREQ == 1
YAESU_SET_MODE == 7
YAESU_PTT_ON == 8
YAESU_PTT_OFF == 136

\* IcomRadioAddress::IC_7300, IC_7000
IC_7300 == 148
IC_7000 == 112
Addrs == {IC_7300, IC_7000}

\* ------------------------------------------------------------ uint32_t
\* A uint32_t is kept as two 16-bit words, value = hi * 65536 + lo, and its
\* arithmetic is done word by word, modulo 2^32 as in the compiled code.
WORD == 65536

\* the uint32_t of a number below 2^31
U32Of(n) == [hi |-> n \div WORD, lo |-> n % WORD]

\* x / 10 and x % 10
U32Div10(x) ==
    LET r == (x.hi % 10) * WORD + x.lo
    IN  [hi |-> x.hi \div 10, lo |-> r \div 10]

U32Mod10(x) == ((x.hi % 10) * WORD + x.lo) % 10

RECURSIVE U32DivPow10(_, _)
\* x / 10^n
U32DivPow10(x, n) == IF n = 0 THEN x ELSE U32DivPow10(U32Div10(x), n - 1)

\* x + y and x * k (k a small factor), both modulo 2^32
U32Add(x, y) ==
    LET l == x.lo + y.lo
    IN  [hi |-> (x.hi + y.hi + (l \div WORD)) % WORD, lo |-> l % WORD]

U32MulSmall(x, k) ==
    LET l == x.lo * k
    IN  [hi |-> (x.hi * k + (l \div WORD)) % WORD, lo |-> l % WORD]

RadioModes == {"LSB", "USB", "CW", "FM", "FMW", "AM", "FSK", "RTTY", "CW_R",
               "TUNE", "FSK_R", "DIG", "DATA_LSB", "DATA_USB", "UNKNOWN"}

\* struct Channel with its default member initialisers
DefaultChannel ==
    [id |-> 0, tx_frequency |-> U32Of(0), rx_frequency |-> U32Of(0),
     tx_mode |-> "USB", rx_mode |-> "USB",
     antenna |-> 1, power |-> 100, attenuation |-> 0, in_use |-> FALSE]

\* the channels a caller passes to set_channel
Channels ==
    { [DefaultChannel EXCEPT !.id = 1, !.rx_frequency = U32Of(14250000),
                             !.tx_frequency = U32Of(14250000), !.in_use = TRUE],
      [DefaultChannel EXCEPT !.id = 2, !.rx_frequency = U32Of(7102500),
                             !.rx_mode = "LSB", !.tx_mode = "LSB"],
      [DefaultChannel EXCEPT !.id = 3, !.rx_frequency = U32Of(10136000),
                             !.rx_mode = "RTTY", !.antenna = 2] }

\* arguments of Elecraft::set_power and Elecraft::set_antenna
Watts == {5, 100}
Antennas == {1, 2}

\* ------------------------------------------------------- printf formatting
RECURSIVE DecDigits(_)
\* the decimal digits of n >= 0 as ASCII codes, no padding
DecDigits(n) == IF n < 10 THEN <<48 + n>>
                ELSE Append(DecDigits(n \div 10), 48 + (n % 10))

RECURSIVE ZeroPad(_, _)
ZeroPad(s, width) == IF Len(s) >= width THEN s ELSE ZeroPad(<<48>> \o s, width)

\* "%0<width>u" / "%0<width>d": zero padding goes after the sign and the
\* sign counts towards the width
FmtInt(n, width) ==
    IF n >= 0 THEN ZeroPad(DecDigits(n), width)
    ELSE <<45>> \o ZeroPad(DecDigits(-n), width - 1)

RECURSIVE U32DecDigits(_)
\* the decimal digits of a uint32_t as ASCII codes, no padding
U32DecDigits(x) ==
    IF x.hi = 0 /\ x.lo < 10 THEN <<48 + x.lo>>
    ELSE Append(U32DecDigits(U32Div10(x)), 48 + U32Mod10(x))

\* "%0<width>u" of a uint32_t
FmtU32(x, width) == ZeroPad(U32DecDigits(x), width)

\* snprintf(buf, size, ...): at most size-1 characters are stored
Snprintf(size, s) == IF Len(s) > size - 1 THEN SubSeq(s, 1, size - 1) ELSE s

\* ------------------------------------------------------------------ Kenwood
radio_mode_to_kenwood(mode) ==
    CASE mode = "LSB"      -> 1
      [] mode = "USB"      -> 2
      [] mode = "CW"       -> 3
      [] mode = "FM"       -> 4
      [] mode = "AM"       -> 5
      [] mode = "FSK"      -> 6
      [] mode = "RTTY"     -> 6
      [] mode = "CW_R"     -> 7
      [] mode = "FSK_R"    -> 9
      [] mode = "DATA_USB" -> 2
      [] mode = "DATA_LSB" -> 1
      [] OTHER             -> 2

\* variant: the format is "F%c%010u;"
build_freq_command_10(vfo, freq_hz) ==
    Snprintf(16, <<70, vfo>> \o FmtU32(freq_hz, 10) \o <<SEMICOLON>>)

\* snprintf(buf, 16, "F%c%011u;", vfo, freq_hz)
build_freq_command(vfo, freq_hz) ==
    Snprintf(16, <<70, vfo>> \o FmtU32(freq_hz, 11) \o <<SEMICOLON>>)

\* snprintf(buf, 8, "MD%d;", code)
build_mode_command(mode) ==
    Snprintf(8, <<77, 68>> \o FmtInt(radio_mode_to_kenwood(mode), 1) \o <<SEMICOLON>>)

\* "TX;" and "RX;"
KenwoodPttCommand(transmit) ==
    IF transmit THEN <<84, 88, SEMICOLON>> ELSE <<82, 88, SEMICOLON>>

\* snprintf(buf, 8, "PC%03d;", watts)
ElecraftPowerCommand(watts) ==
    Snprintf(8, <<80, 67>> \o FmtInt(watts, 3) \o <<SEMICOLON>>)

\* snprintf(buf, 8, "AN%d;", ant)
ElecraftAntennaCommand(ant) ==
    Snprintf(8, <<65, 78>> \o FmtInt(ant, 1) \o <<SEMICOLON>>)

\* --------------------------------------------------------------------- Icom
radio_mode_to_civ(mode) ==
    CASE mode = "LSB"      -> 0
      [] mode = "USB"      -> 1
      [] mode = "AM"       -> 2
      [] mode = "CW"       -> 3
      [] mode = "RTTY"     -> 4
      [] mode = "FM"       -> 5
      [] mode = "CW_R"     -> 7
      [] mode = "FSK"      -> 4
      [] mode = "FSK_R"    -> 8
      [] mode = "DATA_LSB" -> 0
      [] mode = "DATA_USB" -> 1
      [] OTHER             -> 1

RECURSIVE freq_to_bcd_swapped(_, _)
\* variant: bcd[i] = (lo << 4) | hi
freq_to_bcd_swapped(freq_hz, len) ==
    IF len = 0 THEN <<>>
    ELSE LET lo == U32Mod10(freq_hz)
             hi == U32Mod10(U32Div10(freq_hz))
         IN  <<((lo * 16) + hi) % 256>>
             \o freq_to_bcd_swapped(U32Div10(U32Div10(freq_hz)), len - 1)

RECURSIVE freq_to_bcd(_, _)
\* len bytes, least significant first, two decimal digits per byte
freq_to_bcd(freq_hz, len) ==
    IF len = 0 THEN <<>>
    ELSE LET lo == U32Mod10(freq_hz)
             hi == U32Mod10(U32Div10(freq_hz))
         IN  <<((hi * 16) + lo) % 256>>
             \o freq_to_bcd(U32Div10(U32Div10(freq_hz)), len - 1)

\* build_frame(cmd, data, len)
build_frame(addr, cmd, data) ==
    <<CIV_PREAMBLE, CIV_PREAMBLE, addr, CIV_CONTROLLER, cmd>> \o data \o <<CIV_EOM>>

\* build_frame(cmd, subcmd, data, len)
build_frame_sub(addr, cmd, subcmd, data) ==
    <<CIV_PREAMBLE, CIV_PREAMBLE, addr, CIV_CONTROLLER, cmd, subcmd>>
        \o data \o <<CIV_EOM>>

\* -------------------------------------------------------------------- Yaesu
\* YaesuMode: DIG, DIG_USB and DIG_LSB are all 0x0A
radio_mode_to_yaesu(mode) ==
    CASE mode = "LSB"      -> 0
      [] mode = "USB"      -> 1
      [] mode = "CW"       -> 2
      [] mode = "CW_R"     -> 3
      [] mode = "AM"       -> 4
      [] mode = "FM"       -> 8
      [] mode = "DIG"      -> 10
      [] mode = "FSK"      -> 10
      [] mode = "DATA_USB" -> 10
      [] mode = "DATA_LSB" -> 10
      [] OTHER             -> 1

\* variant: the division by 10 is missing
freq_to_packed_bcd_hz(freq_hz) ==
    LET f == freq_hz
        Pack(hi, lo) == ((U32Mod10(hi) * 16) + U32Mod10(lo)) % 256
    IN  << Pack(U32DivPow10(f, 7), U32DivPow10(f, 6)),
           Pack(U32DivPow10(f, 5), U32DivPow10(f, 4)),
           Pack(U32DivPow10(f, 3), U32DivPow10(f, 2)),
           Pack(U32DivPow10(f, 1), f) >>

\* 4 bytes, most significant first, of freq_hz / 10
freq_to_packed_bcd(freq_hz) ==
    LET f == U32Div10(freq_hz)
        Pack(hi, lo) == ((U32Mod10(hi) * 16) + U32Mod10(lo)) % 256
    IN  << Pack(U32DivPow10(f, 7), U32DivPow10(f, 6)),
           Pack(U32DivPow10(f, 5), U32DivPow10(f, 4)),
           Pack(U32DivPow10(f, 3), U32DivPow10(f, 2)),
           Pack(U32DivPow10(f, 1), f) >>

build_command(cmd, p1, p2, p3, p4) == <<p1, p2, p3, p4, cmd>>


\* ----------------------------------------------------------------- decoders
\* Kenwood::kenwood_to_radio_mode, with code 6 read as RTTY
kenwood_to_radio_mode_rtty(code) ==
    CASE code = 1 -> "LSB"
      [] code = 2 -> "USB"
      [] code = 3 -> "CW"
      [] code = 4 -> "FM"
      [] code = 5 -> "AM"
      [] code = 6 -> "RTTY"
      [] code = 7 -> "CW_R"
      [] code = 9 -> "FSK_R"
      [] OTHER    -> "USB"

\* Kenwood::kenwood_to_radio_mode
kenwood_to_radio_mode(code) ==
    CASE code = 1 -> "LSB"
      [] code = 2 -> "USB"
      [] code = 3 -> "CW"
      [] code = 4 -> "FM"
      [] code = 5 -> "AM"
      [] code = 6 -> "FSK"
      [] code = 7 -> "CW_R"
      [] code = 9 -> "FSK_R"
      [] OTHER    -> "USB"

\* IcomCiv::civ_to_radio_mode, with code 4 read as FSK
civ_to_radio_mode_fsk(code) ==
    CASE code = 0 -> "LSB"
      [] code = 1 -> "USB"
      [] code = 2 -> "AM"
      [] code = 3 -> "CW"
      [] code = 4 -> "FSK"
      [] code = 5 -> "FM"
      [] code = 7 -> "CW_R"
      [] code = 8 -> "FSK_R"
      [] OTHER    -> "USB"

\* IcomCiv::civ_to_radio_mode
civ_to_radio_mode(code) ==
    CASE code = 0 -> "LSB"
      [] code = 1 -> "USB"
      [] code = 2 -> "AM"
      [] code = 3 -> "CW"
      [] code = 4 -> "RTTY"
      [] code = 5 -> "FM"
      [] code = 7 -> "CW_R"
      [] code = 8 -> "FSK_R"
      [] OTHER    -> "USB"

RECURSIVE bcd_to_freq_loop(_, _, _, _, _)
\* the loop of IcomCiv::bcd_to_freq from index i on, freq and mult being
\* uint32_t: both the sums and the multiplier wrap modulo 2^32
bcd_to_freq_loop(bcd, i, len, freq, mult) ==
    IF i > len THEN freq
    ELSE LET lo    == bcd[i] % 16
             hi    == (bcd[i] \div 16) % 16
             freq1 == U32Add(freq, U32MulSmall(mult, lo))
             mult1 == U32MulSmall(mult, 10)
             freq2 == U32Add(freq1, U32MulSmall(mult1, hi))
             mult2 == U32MulSmall(mult1, 10)
         IN  bcd_to_freq_loop(bcd, i + 1, len, freq2, mult2)

\* IcomCiv::bcd_to_freq, taking the high nibble as the lower digit
bcd_to_freq_hi_first(bcd, len) ==
    bcd_to_freq_loop([i \in 1..len |-> (bcd[i] % 16) * 16 + (bcd[i] \div 16)],
                     1, len, U32Of(0), U32Of(1))

\* IcomCiv::bcd_to_freq
bcd_to_freq(bcd, len) == bcd_to_freq_loop(bcd, 1, len, U32Of(0), U32Of(1))

\* YaesuCat::packed_bcd_to_freq without the final * 10
packed_bcd_to_freq_no_scale(bcd) ==
    LET Hi(b) == (b \div 16) % 16
        Lo(b) == b % 16
    IN  U32Of(Hi(bcd[1]) * 10000000 + Lo(bcd[1]) * 1000000
              + Hi(bcd[2]) * 100000 + Lo(bcd[2]) * 10000
              + Hi(bcd[3]) * 1000 + Lo(bcd[3]) * 100
              + Hi(bcd[4]) * 10 + Lo(bcd[4]))

\* YaesuCat::packed_bcd_to_freq: the eight nibbles weighted 10^7 .. 10^0
\* (the sum stays below 2^31), then freq * 10 in uint32_t
packed_bcd_to_freq(bcd) ==
    LET Hi(b) == (b \div 16) % 16
        Lo(b) == b % 16
        freq  == U32Of(Hi(bcd[1]) * 10000000 + Lo(bcd[1]) * 1000000
                       + Hi(bcd[2]) * 100000 + Lo(bcd[2]) * 10000
                       + Hi(bcd[3]) * 1000 + Lo(bcd[3]) * 100
                       + Hi(bcd[4]) * 10 + Lo(bcd[4]))
    IN  U32MulSmall(freq, 10)

\* ================================================================ resampler
\* A float the filter holds or produces is kept as a multiple of
\* 1 / COEFF_UNIT, or as NaN; input samples are whole numbers.
COEFF_UNIT == 100000

Num(v) == [nan |-> FALSE, v |-> v]

NaN == [nan |-> TRUE, v |-> 0]

Finite(t) == [i \in DOMAIN t |-> Num(t[i])]

\* variant: no lowpass at all, the newest sample is passed through
design_filter_passthrough(ratio, taps_per_phase) ==
    [i \in 1..(ratio * taps_per_phase) |->
        Num(IF i = ratio * taps_per_phase THEN COEFF_UNIT ELSE 0)]

\* Resampler::design_filter: the Hamming-windowed sinc with cutoff
\* 0.45 / ratio, normalised to sum 1, evaluated for the configurations used
\* here and rounded to 1 / COEFF_UNIT.  With a single tap M = 0, the window
\* argument 2 pi i / M is 0 / 0 and the one coefficient is NaN.
design_filter(ratio, taps_per_phase) ==
    CASE ratio = 1 /\ taps_per_phase = 1 -> <<NaN>>
      [] ratio = 1 /\ taps_per_phase = 2 ->
             Finite(<<50000, 50000>>)
      [] ratio = 2 /\ taps_per_phase = 1 ->
             Finite(<<50000, 50000>>)
      [] ratio = 2 /\ taps_per_phase = 2 ->
             Finite(<<2174, 47826, 47826, 2174>>)
      [] ratio = 3 /\ taps_per_phase = 1 ->
             Finite(<<6038, 87924, 6038>>)
      [] ratio = 6 /\ taps_per_phase = 1 ->
             Finite(<<2355, 13721, 33924, 33924, 13721, 2355>>)
      [] ratio = 6 /\ taps_per_phase = 8 ->
             Finite(<<-108, -110, -93, -42, 55, 200, 371, 514, 559, 430, 80,
                      -482, -1171, -1820, -2207, -2092, -1281, 322, 2668, 5552,
                      8631, 11480, 13674, 14868, 14868, 13674, 11480, 8631, 5552,
                      2668, 322, -1281, -2092, -2207, -1820, -1171, -482, 80,
                      430, 559, 514, 371, 200, 55, -42, -93, -110, -108>>)

\* The alias test: a 5 kHz sine sampled at 48 kHz, 4800 samples, is
\* decimated and the output correlated with a 3 kHz cosine and sine at 8 kHz.
\* Samples and correlation factors are kept as multiples of 1 / TRIG_UNIT;
\* the sine has a period of 48 samples, the correlation one of 8.
TRIG_UNIT == 1000

TONE_SAMPLES == 4800

\* round(TRIG_UNIT * sin(2 pi 5000 i / 48000)), i = 0..47
TONE_5K == <<0, 609, 966, 924, 500, -131, -707, -991, -866, -383, 259,
            793, 1000, 793, 259, -383, -866, -991, -707, -131, 500,
            924, 966, 609, 0, -609, -966, -924, -500, 131, 707, 991,
            866, 383, -259, -793, -1000, -793, -259, 383, 866, 991,
            707, 131, -500, -924, -966, -609>>

\* round(TRIG_UNIT * cos(2 pi 3000 i / 8000)), i = 0..7
COS_3K == <<1000, -707, 0, 707, -1000, 707, 0, -707>>

\* round(TRIG_UNIT * sin(2 pi 3000 i / 8000)), i = 0..7
SIN_3K == <<0, 707, -1000, 707, 0, -707, 1000, -707>>

\* constructor defaults
DEFAULT_RATIO == 6

DEFAULT_TAPS == 8

\* ==================================================================== state
VARIABLES
    kind,              \* which of the four classes the instance is
    serial_,           \* ISerial* serial_: TRUE when not null
    radio_addr_,       \* IcomCiv::radio_addr_ (0 for the other classes)
    ready_,
    transmitting_,
    current_channel_,
    send_callback_,    \* None or the registered callable
    ack_callback_,     \* None or the registered callable
    rx_buffer_,        \* Kenwood/IcomCiv parse buffer (YaesuCat has none)
    last,              \* observer: the last call, its result and side effects
    accepted,          \* observer: argument of the last set_channel that returned true
    streak,            \* observer: bytes fed since the last terminator / initialize
    streak_acks,       \* observer: acknowledge invocations during that run
    lifecycle,         \* observer: the most recent call among initialize / shutdown
    conv,              \* the static conversion functions: argument and result
    ratio_,            \* Resampler::ratio_
    taps_per_phase_,   \* Resampler::taps_per_phase_
    total_taps_,       \* Resampler::total_taps_
    coeffs_,           \* Resampler::coeffs_, 1-based here
    history_,          \* Resampler::history_, 1-based here
    history_pos_,      \* Resampler::history_pos_, 0-based as in the code
    rs,                \* observer: the last resampler call, its input and output
    written,           \* observer: the samples written to the history since
                       \* construction or the last reset, oldest first
    tone               \* observer: the single-frequency power measurement of
                       \* the decimated output, when one is running

resampler_vars == <<ratio_, taps_per_phase_, total_taps_, coeffs_, history_,
                    history_pos_, rs, written, tone>>

vars == <<kind, serial_, radio_addr_, ready_, transmitting_, current_channel_,
          send_callback_, ack_callback_, rx_buffer_, last, accepted,
          streak, streak_acks, lifecycle, conv,
          ratio_, taps_per_phase_, total_taps_, coeffs_, history_,
          history_pos_, rs, written, tone>>

IsKenwood == kind \in {"Kenwood", "Elecraft"}
HasBuffer == kind \in {"Kenwood", "Elecraft", "IcomCiv"}

\* the frame terminator of the codec's receive protocol
Terminator == IF IsKenwood THEN SEMICOLON ELSE CIV_EOM

\* what a call is observed to do; every action fills in its own fields
Obs(op) ==
    [op |-> op, ret |-> FALSE, str |-> "", channel |-> DefaultChannel,
     flag |-> FALSE, num |-> 0, data |-> <<>>,
     sent |-> <<>>, acks |-> <<>>, trace |-> <<>>,
     pre_channel |-> current_channel_, pre_tx |-> transmitting_,
     pre_buffer |-> Len(rx_buffer_), pre_ready |-> ready_]

\* ---------------------------------------------------------------- resampler
radio_vars == <<kind, serial_, radio_addr_, ready_, transmitting_,
                current_channel_, send_callback_, ack_callback_, rx_buffer_,
                last, accepted, streak, streak_acks, lifecycle, conv>>

\* The loops work on a record st = [history, pos, out]: the circular buffer,
\* the write position and the outputs produced so far in this call.
RECURSIVE apply_filter_range(_, _, _)
\* the sum the loop of Resampler::apply_filter forms over taps lo..hi,
\* added up in halves; a NaN coefficient makes the sum NaN
apply_filter_range(st, lo, hi) ==
    IF lo = hi
    THEN LET idx == (st.pos + lo) % total_taps_
             c   == coeffs_[lo + 1]
         IN  IF c.nan THEN NaN ELSE Num(st.history[idx + 1] * c.v)
    ELSE LET mid == (lo + hi) \div 2
             a   == apply_filter_range(st, lo, mid)
             b   == apply_filter_range(st, mid + 1, hi)
         IN  IF a.nan \/ b.nan THEN NaN ELSE Num(a.v + b.v)

\* variant: the history is read from slot 0, not from the write position
apply_filter_unrotated(st) ==
    apply_filter_range([st EXCEPT !.pos = 0], 0, total_taps_ - 1)

\* Resampler::apply_filter
apply_filter(st) == apply_filter_range(st, 0, total_taps_ - 1)

\* variant: the write position stays on the last slot instead of wrapping
PushSample_no_wrap(st, sample) ==
    [st EXCEPT !.history = [@ EXCEPT ![st.pos + 1] = sample],
               !.pos = IF st.pos + 1 < total_taps_ THEN st.pos + 1 ELSE st.pos]

\* history_[history_pos_] = sample; history_pos_ = (history_pos_ + 1) % total_taps_
PushSample(st, sample) ==
    [st EXCEPT !.history = [@ EXCEPT ![st.pos + 1] = sample],
               !.pos = (st.pos + 1) % total_taps_]

RECURSIVE decimate_loop_by_position(_, _, _)
\* variant: an output is due whenever the write position is a multiple of
\* ratio_, so the count runs on across calls
decimate_loop_by_position(st, input, i) ==
    IF i >= Len(input) THEN st
    ELSE LET s1 == PushSample(st, input[i + 1])
             s2 == IF (s1.pos % ratio_) = 0
                   THEN [s1 EXCEPT !.out = Append(@, apply_filter(s1))]
                   ELSE s1
         IN  decimate_loop_by_position(s2, input, i + 1)

RECURSIVE decimate_loop(_, _, _)
\* the loop of Resampler::decimate from input index i on
decimate_loop(st, input, i) ==
    IF i >= Len(input) THEN st
    ELSE LET s1 == PushSample(st, input[i + 1])
             s2 == IF ((i + 1) % ratio_) = 0
                   THEN [s1 EXCEPT !.out = Append(@, apply_filter(s1))]
                   ELSE s1
         IN  decimate_loop(s2, input, i + 1)

\* Resampler::decimate
decimate(input) ==
    decimate_loop([history |-> history_, pos |-> history_pos_, out |-> <<>>],
                  input, 0)

RECURSIVE interpolate_phases_hold(_, _, _)
\* variant: the sample is held for all phases instead of followed by zeros
interpolate_phases_hold(st, x, phase) ==
    IF phase >= ratio_ THEN st
    ELSE LET s1 == PushSample(st, x)
         IN  interpolate_phases_hold(
                 [s1 EXCEPT !.out = Append(@, apply_filter(s1))], x, phase + 1)

RECURSIVE interpolate_phases(_, _, _)
\* the inner loop of Resampler::interpolate from the given phase on
interpolate_phases(st, x, phase) ==
    IF phase >= ratio_ THEN st
    ELSE LET sample == IF phase = 0 THEN x * ratio_ ELSE 0
             s1     == PushSample(st, sample)
         IN  interpolate_phases([s1 EXCEPT !.out = Append(@, apply_filter(s1))],
                                x, phase + 1)

RECURSIVE interpolate_loop(_, _, _)
interpolate_loop(st, input, i) ==
    IF i >= Len(input) THEN st
    ELSE interpolate_loop(interpolate_phases(st, input[i + 1], 0), input, i + 1)

\* Resampler::interpolate
interpolate(input) ==
    interpolate_loop([history |-> history_, pos |-> history_pos_, out |-> <<>>],
                     input, 0)

\* what a resampler call is observed to do
RsObs(op) ==
    [op |-> op, prev |-> rs.op, input |-> <<>>, output |-> <<>>, ret |-> 0,
     pre_history |-> history_, pre_pos |-> history_pos_, pre_written |-> written]

\* no measurement running
NoTone == [on |-> FALSE, n |-> 0, re |-> 0, im |-> 0, nan |-> FALSE]

RECURSIVE measure_frequency_power_loop(_, _)
\* the loop of measure_frequency_power over further output samples: the
\* sample, brought to multiples of 1 / TRIG_UNIT, times cos and sin of the
\* phase of its index is added to real and imag
measure_frequency_power_loop(t, out) ==
    IF out = <<>> \/ ~t.on THEN t
    ELSE LET o == Head(out)
             x == o.v \div COEFF_UNIT
             k == (t.n % 8) + 1
         IN  measure_frequency_power_loop(
                 [t EXCEPT !.n = @ + 1,
                           !.re = @ + x * COS_3K[k],
                           !.im = @ + x * SIN_3K[k],
                           !.nan = @ \/ o.nan],
                 Tail(out))

RECURSIVE ZeroStuffed(_, _)
\* the samples interpolate writes for an input: each one times ratio,
\* followed by ratio - 1 zeros
ZeroStuffed(input, ratio) ==
    IF input = <<>> THEN <<>>
    ELSE <<Head(input) * ratio>> \o [i \in 1..(ratio - 1) |-> 0]
         \o ZeroStuffed(Tail(input), ratio)

\* ------------------------------------------------------------------ sending
\* variant: the serial write is not skipped when a callback is registered
send_command_both(frame) ==
    (IF send_callback_ # None
     THEN << [to |-> "callback", cb |-> send_callback_, bytes |-> frame] >>
     ELSE << >>)
    \o (IF serial_
        THEN << [to |-> "serial", cb |-> None, bytes |-> frame] >>
        ELSE << >>)

\* Kenwood::send_command, IcomCiv::send_frame, YaesuCat::send_command:
\* the deliveries one frame causes, in order
send_command(frame) ==
    IF send_callback_ # None
    THEN << [to |-> "callback", cb |-> send_callback_, bytes |-> frame] >>
    ELSE IF serial_
         THEN << [to |-> "serial", cb |-> None, bytes |-> frame] >>
         ELSE << >>

\* ------------------------------------------------------------- set_channel
\* variant: the mode command is sent before the frequency command
Kenwood_set_channel_mode_first(channel) ==
    IF ~ready_ \/ ~serial_
    THEN [ret |-> FALSE, sent |-> <<>>, channel |-> current_channel_]
    ELSE [ret |-> TRUE,
          sent |-> send_command(build_mode_command(channel.rx_mode))
                   \o send_command(build_freq_command(65, channel.rx_frequency)),
          channel |-> channel]

\* variant: the mode command is left out when the stored channel already
\* has the mode
Kenwood_set_channel_mode_on_change(channel) ==
    IF ~ready_ \/ ~serial_
    THEN [ret |-> FALSE, sent |-> <<>>, channel |-> current_channel_]
    ELSE [ret |-> TRUE,
          sent |-> send_command(build_freq_command(65, channel.rx_frequency))
                   \o (IF channel.rx_mode = current_channel_.rx_mode THEN <<>>
                       ELSE send_command(build_mode_command(channel.rx_mode))),
          channel |-> channel]

\* each returns the value returned, the deliveries made and the channel stored
Kenwood_set_channel(channel) ==
    IF ~ready_ \/ ~serial_
    THEN [ret |-> FALSE, sent |-> <<>>, channel |-> current_channel_]
    ELSE [ret |-> TRUE,
          sent |-> send_command(build_freq_command(65, channel.rx_frequency))
                   \o send_command(build_mode_command(channel.rx_mode)),
          channel |-> channel]

IcomCiv_set_channel(channel) ==
    IF ~ready_ \/ ~serial_
    THEN [ret |-> FALSE, sent |-> <<>>, channel |-> current_channel_]
    ELSE [ret |-> TRUE,
          sent |-> send_command(build_frame(radio_addr_, CIV_SET_FREQ,
                                            freq_to_bcd(channel.rx_frequency, 5)))
                   \o send_command(build_frame(radio_addr_, CIV_SET_MODE,
                                               <<radio_mode_to_civ(channel.rx_mode)>>)),
          channel |-> channel]

\* variant: the channel is stored before the readiness test
YaesuCat_set_channel_always_stores(channel) ==
    IF ~ready_ \/ ~serial_
    THEN [ret |-> FALSE, sent |-> <<>>, channel |-> channel]
    ELSE LET bcd == freq_to_packed_bcd(channel.rx_frequency)
         IN  [ret |-> TRUE,
              sent |-> send_command(build_command(YAESU_SET_FREQ,
                                                  bcd[1], bcd[2], bcd[3], bcd[4]))
                       \o send_command(build_command(YAESU_SET_MODE,
                                           radio_mode_to_yaesu(channel.rx_mode), 0, 0, 0)),
              channel |-> channel]

\* variant: a frequency of 1,000,000,000 Hz or more, which does not fit the
\* eight BCD digits, is refused
YaesuCat_set_channel_guarded(channel) ==
    IF \/ ~ready_
       \/ ~serial_
       \/ channel.rx_frequency.hi > 15258
       \/ (channel.rx_frequency.hi = 15258 /\ channel.rx_frequency.lo >= 51712)
    THEN [ret |-> FALSE, sent |-> <<>>, channel |-> current_channel_]
    ELSE LET bcd == freq_to_packed_bcd(channel.rx_frequency)
         IN  [ret |-> TRUE,
              sent |-> send_command(build_command(YAESU_SET_FREQ,
                                                  bcd[1], bcd[2], bcd[3], bcd[4]))
                       \o send_command(build_command(YAESU_SET_MODE,
                                           radio_mode_to_yaesu(channel.rx_mode), 0, 0, 0)),
              channel |-> channel]

YaesuCat_set_channel(channel) ==
    IF ~ready_ \/ ~serial_
    THEN [ret |-> FALSE, sent |-> <<>>, channel |-> current_channel_]
    ELSE LET bcd == freq_to_packed_bcd(channel.rx_frequency)
         IN  [ret |-> TRUE,
              sent |-> send_command(build_command(YAESU_SET_FREQ,
                                                  bcd[1], bcd[2], bcd[3], bcd[4]))
                       \o send_command(build_command(YAESU_SET_MODE,
                                           radio_mode_to_yaesu(channel.rx_mode), 0, 0, 0)),
              channel |-> channel]

set_channel(channel) ==
    CASE IsKenwood          -> Kenwood_set_channel(channel)
      [] kind = "IcomCiv"   -> IcomCiv_set_channel(channel)
      [] kind = "YaesuCat"  -> YaesuCat_set_channel(channel)

\* ------------------------------------------------------------------ set_ptt
\* each returns the deliveries made and the new transmitting flag
\* variant: nothing is sent when the flag already has the requested value
Kenwood_set_ptt_on_change(transmit) ==
    IF ~ready_ \/ ~serial_
    THEN [sent |-> <<>>, transmitting |-> transmitting_]
    ELSE [sent |-> IF transmit = transmitting_ THEN <<>>
                   ELSE send_command(KenwoodPttCommand(transmit)),
          transmitting |-> transmit]

Kenwood_set_ptt(transmit) ==
    IF ~ready_ \/ ~serial_
    THEN [sent |-> <<>>, transmitting |-> transmitting_]
    ELSE [sent |-> send_command(KenwoodPttCommand(transmit)),
          transmitting |-> transmit]

\* variant: the flag is written before the readiness test
IcomCiv_set_ptt_flag_first(transmit) ==
    IF ~ready_ \/ ~serial_
    THEN [sent |-> <<>>, transmitting |-> transmit]
    ELSE [sent |-> send_command(build_frame_sub(radio_addr_, CIV_PTT, 0,
                                    <<IF transmit THEN 1 ELSE 0>>)),
          transmitting |-> transmit]

IcomCiv_set_ptt(transmit) ==
    IF ~ready_ \/ ~serial_
    THEN [sent |-> <<>>, transmitting |-> transmitting_]
    ELSE [sent |-> send_command(build_frame_sub(radio_addr_, CIV_PTT, 0,
                                    <<IF transmit THEN 1 ELSE 0>>)),
          transmitting |-> transmit]

YaesuCat_set_ptt(transmit) ==
    IF ~ready_ \/ ~serial_
    THEN [sent |-> <<>>, transmitting |-> transmitting_]
    ELSE [sent |-> send_command(build_command(
                        IF transmit THEN YAESU_PTT_ON ELSE YAESU_PTT_OFF, 0, 0, 0, 0)),
          transmitting |-> transmit]

set_ptt(transmit) ==
    CASE IsKenwood          -> Kenwood_set_ptt(transmit)
      [] kind = "IcomCiv"   -> IcomCiv_set_ptt(transmit)
      [] kind = "YaesuCat"  -> YaesuCat_set_ptt(transmit)

\* ------------------------------------------------------- Elecraft commands
\* neither checks ready_: the command goes straight to Kenwood::send_command
Elecraft_set_power(watts) == send_command(ElecraftPowerCommand(watts))

Elecraft_set_antenna(ant) == send_command(ElecraftAntennaCommand(ant))

\* variant: Elecraft does not override get_port_config
get_port_config_inherited ==
    CASE kind = "Kenwood"  -> "9600,n,8,1"
      [] kind = "Elecraft" -> "9600,n,8,1"
      [] kind = "IcomCiv"  -> "9600,n,8,1"
      [] kind = "YaesuCat" -> "9600,n,8,2"

get_port_config ==
    CASE kind = "Kenwood"  -> "9600,n,8,1"
      [] kind = "Elecraft" -> "38400,n,8,1"
      [] kind = "IcomCiv"  -> "9600,n,8,1"
      [] kind = "YaesuCat" -> "9600,n,8,2"


\* --------------------------------------------------------- process_response
\* The receive loops work on a record st = [buf, acks, trace]: the parse
\* buffer, the acknowledge callables invoked so far in this call, and one
\* trace entry per byte (the byte, how often the callback fired for it, the
\* first five bytes, the last six bytes and the length of the buffer right
\* after the byte was appended, and the buffer length at the end of the loop
\* iteration).
FrameHead(buf) == SubSeq(buf, 1, IF Len(buf) < 5 THEN Len(buf) ELSE 5)

FrameTail(buf) == SubSeq(buf, IF Len(buf) < 6 THEN 1 ELSE Len(buf) - 5, Len(buf))

\* ack_callback_ is only called when it holds a callable
InvokeAck == IF ack_callback_ # None THEN <<ack_callback_>> ELSE <<>>

\* variant: the clear keeps the byte that made the buffer too long
PreventOverflow_keep_byte(buf) ==
    IF Len(buf) > RX_LIMIT THEN <<buf[Len(buf)]>> ELSE buf

\* variant: the guard compares with >= instead of >
PreventOverflow_at_limit(buf) == IF Len(buf) >= RX_LIMIT THEN <<>> ELSE buf

\* if (rx_buffer_.size() > 256) rx_buffer_.clear();
PreventOverflow(buf) == IF Len(buf) > RX_LIMIT THEN <<>> ELSE buf

\* variant: a ';' that arrives on an empty buffer is not acknowledged
Kenwood_rx_byte_nonempty(st, c) ==
    LET pushed == Append(st.buf, c)
        fired  == IF c = SEMICOLON /\ st.buf # <<>> THEN InvokeAck ELSE <<>>
        parsed == IF c = SEMICOLON THEN <<>> ELSE pushed
        buf    == IF Len(parsed) > RX_LIMIT THEN <<>> ELSE parsed
    IN  [buf   |-> buf,
         acks  |-> st.acks \o fired,
         trace |-> Append(st.trace, [byte |-> c, fired |-> Len(fired),
                                     head |-> FrameHead(pushed), flen |-> Len(pushed),
                                     tail |-> FrameTail(pushed),
                                     size |-> Len(buf)])]

\* one iteration of the loop of Kenwood::process_response
Kenwood_rx_byte(st, c) ==
    LET pushed == Append(st.buf, c)
        fired  == IF c = SEMICOLON THEN InvokeAck ELSE <<>>
        parsed == IF c = SEMICOLON THEN <<>> ELSE pushed
        buf    == PreventOverflow(parsed)
    IN  [buf   |-> buf,
         acks  |-> st.acks \o fired,
         trace |-> Append(st.trace, [byte |-> c, fired |-> Len(fired),
                                     head |-> FrameHead(pushed), flen |-> Len(pushed),
                                     tail |-> FrameTail(pushed),
                                     size |-> Len(buf)])]

\* variant: the byte at offset 4 is not compared with CIV_ACK
IcomCiv_is_ack_any(frame) ==
    /\ Len(frame) >= 6
    /\ frame[1] = CIV_PREAMBLE
    /\ frame[2] = CIV_PREAMBLE

\* the frame test of IcomCiv::process_response: at least 6 bytes, double
\* preamble, ACK at offset 4
IcomCiv_is_ack(frame) ==
    /\ Len(frame) >= 6
    /\ frame[1] = CIV_PREAMBLE
    /\ frame[2] = CIV_PREAMBLE
    /\ frame[5] = CIV_ACK

\* variant: the frame test looks at the last six bytes, so that bytes left
\* over in front of a frame do not matter
IcomCiv_rx_byte_resync(st, c) ==
    LET pushed == Append(st.buf, c)
        fired  == IF c = CIV_EOM /\ IcomCiv_is_ack(FrameTail(pushed))
                  THEN InvokeAck ELSE <<>>
        parsed == IF c = CIV_EOM THEN <<>> ELSE pushed
        buf    == PreventOverflow(parsed)
    IN  [buf   |-> buf,
         acks  |-> st.acks \o fired,
         trace |-> Append(st.trace, [byte |-> c, fired |-> Len(fired),
                                     head |-> FrameHead(pushed), flen |-> Len(pushed),
                                     tail |-> FrameTail(pushed),
                                     size |-> Len(buf)])]

\* one iteration of the loop of IcomCiv::process_response
IcomCiv_rx_byte(st, c) ==
    LET pushed == Append(st.buf, c)
        fired  == IF c = CIV_EOM /\ IcomCiv_is_ack(pushed) THEN InvokeAck ELSE <<>>
        parsed == IF c = CIV_EOM THEN <<>> ELSE pushed
        buf    == PreventOverflow(parsed)
    IN  [buf   |-> buf,
         acks  |-> st.acks \o fired,
         trace |-> Append(st.trace, [byte |-> c, fired |-> Len(fired),
                                     head |-> FrameHead(pushed), flen |-> Len(pushed),
                                     tail |-> FrameTail(pushed),
                                     size |-> Len(buf)])]

RECURSIVE Kenwood_process_response(_, _)
Kenwood_process_response(st, data) ==
    IF data = <<>> THEN st
    ELSE Kenwood_process_response(Kenwood_rx_byte(st, Head(data)), Tail(data))

RECURSIVE IcomCiv_process_response(_, _)
IcomCiv_process_response(st, data) ==
    IF data = <<>> THEN st
    ELSE IcomCiv_process_response(IcomCiv_rx_byte(st, Head(data)), Tail(data))

\* variant: the callback is invoked once per byte
YaesuCat_process_response_per_byte(st, data) ==
    [st EXCEPT !.acks = [i \in 1..Len(data) |-> ack_callback_]]

\* if (length > 0 && ack_callback_) ack_callback_();   no buffer, no loop
YaesuCat_process_response(st, data) ==
    [st EXCEPT !.acks = IF Len(data) > 0 THEN InvokeAck ELSE <<>>]

\* variant: a call starts a new frame instead of continuing the buffered one
process_response_fresh(data) ==
    LET st == [buf |-> <<>>, acks |-> <<>>, trace |-> <<>>]
    IN  CASE IsKenwood         -> Kenwood_process_response(st, data)
          [] kind = "IcomCiv"  -> IcomCiv_process_response(st, data)
          [] kind = "YaesuCat" -> YaesuCat_process_response(st, data)

process_response(data) ==
    LET st == [buf |-> rx_buffer_, acks |-> <<>>, trace |-> <<>>]
    IN  CASE IsKenwood         -> Kenwood_process_response(st, data)
          [] kind = "IcomCiv"  -> IcomCiv_process_response(st, data)
          [] kind = "YaesuCat" -> YaesuCat_process_response(st, data)


\* ---------------------------------------------------------------- observers
RECURSIVE RunAfter(_, _)
\* the run of bytes without a terminator, continued over the trace of a call
RunAfter(run, trace) ==
    IF trace = <<>> THEN run
    ELSE LET e == Head(trace)
         IN  RunAfter(IF e.byte = Terminator
                      THEN [n |-> 0, acks |-> 0]
                      ELSE [n |-> IF run.n < StreakCap THEN run.n + 1 ELSE StreakCap,
                            acks |-> run.acks + e.fired],
                      Tail(trace))

\* all byte sequences over alphabet S of lengths lo..hi
SeqsOf(S, lo, hi) == UNION { [1..n -> S] : n \in lo..hi }

\* the conversion record: which function was applied last, its argument
\* (freq, mode or code), its result (bytes, code, back, back_mode) and
\* whether a decoder was given the result of the encoder applied before it
Idle == [fn |-> "none", freq |-> U32Of(0), mode |-> "USB", code |-> 0,
         bytes |-> <<>>, back |-> U32Of(0), back_mode |-> "USB",
         chained |-> FALSE]

\* ================================================================== actions
\* Resampler::Resampler
Construct(ratio, taps_per_phase) ==
    /\ ratio_ = ratio
    /\ taps_per_phase_ = taps_per_phase
    /\ total_taps_ = ratio * taps_per_phase
    /\ coeffs_ = design_filter(ratio, taps_per_phase)
    /\ history_ = [i \in 1..(ratio * taps_per_phase) |-> 0]
    /\ history_pos_ = 0
    /\ rs = [op |-> "construct", prev |-> "none",
             input |-> <<>>, output |-> <<>>, ret |-> 0,
             pre_history |-> <<>>, pre_pos |-> 0, pre_written |-> <<>>]
    /\ written = <<>>

\* the constructors of the codec classes
RadioInit ==
    /\ kind \in Kinds
    /\ serial_ \in BOOLEAN
    /\ radio_addr_ \in (IF kind = "IcomCiv" THEN Addrs ELSE {0})
    /\ ready_ = FALSE
    /\ transmitting_ = FALSE
    /\ current_channel_ = DefaultChannel
    /\ send_callback_ = None
    /\ ack_callback_ = None
    /\ rx_buffer_ = <<>>
    /\ accepted = DefaultChannel
    /\ streak = 0
    /\ streak_acks = 0
    /\ last = [op |-> "construct", ret |-> FALSE, str |-> "",
               channel |-> DefaultChannel, flag |-> FALSE, num |-> 0,
               data |-> <<>>, sent |-> <<>>, acks |-> <<>>, trace |-> <<>>,
               pre_channel |-> DefaultChannel, pre_tx |-> FALSE, pre_buffer |-> 0,
               pre_ready |-> FALSE]
    /\ lifecycle = "none"
    /\ conv = Idle

\* a codec, and next to it a resampler of the smallest two-tap configuration
\* which the codec runs never call
Init == RadioInit /\ Construct(2, 1) /\ tone = NoTone

\* variant: a second initialize is refused (if (ready_) return false;)
Initialize_once ==
    /\ ready_' = TRUE
    /\ rx_buffer_' = IF HasBuffer THEN <<>> ELSE rx_buffer_
    /\ streak' = 0
    /\ streak_acks' = 0
    /\ last' = [Obs("initialize") EXCEPT !.ret = ~ready_]
    /\ lifecycle' = "initialize"
    /\ UNCHANGED <<kind, serial_, radio_addr_, transmitting_, current_channel_,
                   send_callback_, ack_callback_, accepted, conv, resampler_vars>>

\* Kenwood::initialize, IcomCiv::initialize (clear the buffer), YaesuCat::initialize
Initialize ==
    /\ ready_' = TRUE
    /\ rx_buffer_' = IF HasBuffer THEN <<>> ELSE rx_buffer_
    /\ streak' = 0
    /\ streak_acks' = 0
    /\ last' = [Obs("initialize") EXCEPT !.ret = TRUE]
    /\ lifecycle' = "initialize"
    /\ UNCHANGED <<kind, serial_, radio_addr_, transmitting_, current_channel_,
                   send_callback_, ack_callback_, accepted, conv, resampler_vars>>

\* variant: shutdown also drops the transmitting flag
Shutdown_releases_ptt ==
    /\ ready_' = FALSE
    /\ transmitting_' = FALSE
    /\ last' = Obs("shutdown")
    /\ lifecycle' = "shutdown"
    /\ UNCHANGED <<kind, serial_, radio_addr_, current_channel_,
                   send_callback_, ack_callback_, rx_buffer_, accepted,
                   streak, streak_acks, conv, resampler_vars>>

\* Kenwood::shutdown, IcomCiv::shutdown, YaesuCat::shutdown
Shutdown ==
    /\ ready_' = FALSE
    /\ last' = Obs("shutdown")
    /\ lifecycle' = "shutdown"
    /\ UNCHANGED <<kind, serial_, radio_addr_, transmitting_, current_channel_,
                   send_callback_, ack_callback_, rx_buffer_, accepted,
                   streak, streak_acks, conv, resampler_vars>>

Start ==
    /\ last' = [Obs("start") EXCEPT !.ret = ready_]
    /\ UNCHANGED <<kind, serial_, radio_addr_, ready_, transmitting_,
                   current_channel_, send_callback_, ack_callback_, rx_buffer_,
                   accepted, streak, streak_acks, lifecycle, conv, resampler_vars>>

\* variant: stop tears the session down like shutdown
Stop_marks_not_ready ==
    /\ last' = Obs("stop")
    /\ ready_' = FALSE
    /\ UNCHANGED <<kind, serial_, radio_addr_, transmitting_,
                   current_channel_, send_callback_, ack_callback_, rx_buffer_,
                   accepted, streak, streak_acks, lifecycle, conv, resampler_vars>>

Stop ==
    /\ last' = Obs("stop")
    /\ UNCHANGED <<kind, serial_, radio_addr_, ready_, transmitting_,
                   current_channel_, send_callback_, ack_callback_, rx_buffer_,
                   accepted, streak, streak_acks, lifecycle, conv, resampler_vars>>

SetChannel(channel) ==
    LET r == set_channel(channel)
    IN  /\ current_channel_' = r.channel
        /\ accepted' = IF r.ret THEN channel ELSE accepted
        /\ last' = [Obs("set_channel") EXCEPT !.ret = r.ret, !.sent = r.sent,
                                              !.channel = channel]
        /\ UNCHANGED <<kind, serial_, radio_addr_, ready_, transmitting_,
                       send_callback_, ack_callback_, rx_buffer_,
                       streak, streak_acks, lifecycle, conv, resampler_vars>>

GetChannel ==
    /\ last' = [Obs("get_channel") EXCEPT !.channel = current_channel_]
    /\ UNCHANGED <<kind, serial_, radio_addr_, ready_, transmitting_,
                   current_channel_, send_callback_, ack_callback_, rx_buffer_,
                   accepted, streak, streak_acks, lifecycle, conv, resampler_vars>>

SetPtt(transmit) ==
    LET r == set_ptt(transmit)
    IN  /\ transmitting_' = r.transmitting
        /\ last' = [Obs("set_ptt") EXCEPT !.flag = transmit, !.sent = r.sent]
        /\ UNCHANGED <<kind, serial_, radio_addr_, ready_, current_channel_,
                       send_callback_, ack_callback_, rx_buffer_, accepted,
                       streak, streak_acks, lifecycle, conv, resampler_vars>>

IsTransmitting ==
    /\ last' = [Obs("is_transmitting") EXCEPT !.ret = transmitting_]
    /\ UNCHANGED <<kind, serial_, radio_addr_, ready_, transmitting_,
                   current_channel_, send_callback_, ack_callback_, rx_buffer_,
                   accepted, streak, streak_acks, lifecycle, conv, resampler_vars>>

IsReady ==
    /\ last' = [Obs("is_ready") EXCEPT !.ret = ready_]
    /\ UNCHANGED <<kind, serial_, radio_addr_, ready_, transmitting_,
                   current_channel_, send_callback_, ack_callback_, rx_buffer_,
                   accepted, streak, streak_acks, lifecycle, conv, resampler_vars>>

GetPortConfig ==
    /\ last' = [Obs("get_port_config") EXCEPT !.str = get_port_config]
    /\ UNCHANGED <<kind, serial_, radio_addr_, ready_, transmitting_,
                   current_channel_, send_callback_, ack_callback_, rx_buffer_,
                   accepted, streak, streak_acks, lifecycle, conv, resampler_vars>>

\* registering an empty std::function (None) unregisters
RegisterSendCallback(callback) ==
    /\ send_callback_' = callback
    /\ last' = [Obs("register_send_callback") EXCEPT !.num = callback]
    /\ UNCHANGED <<kind, serial_, radio_addr_, ready_, transmitting_,
                   current_channel_, ack_callback_, rx_buffer_, accepted,
                   streak, streak_acks, lifecycle, conv, resampler_vars>>

RegisterAckCallback(callback) ==
    /\ ack_callback_' = callback
    /\ last' = [Obs("register_ack_callback") EXCEPT !.num = callback]
    /\ UNCHANGED <<kind, serial_, radio_addr_, ready_, transmitting_,
                   current_channel_, send_callback_, rx_buffer_, accepted,
                   streak, streak_acks, lifecycle, conv, resampler_vars>>

\* variant: bytes received while the codec is not ready are dropped
ProcessResponse_when_ready(data) ==
    LET st  == IF ready_ THEN process_response(data)
               ELSE [buf |-> rx_buffer_, acks |-> <<>>, trace |-> <<>>]
        run == RunAfter([n |-> streak, acks |-> streak_acks], st.trace)
    IN  /\ rx_buffer_' = st.buf
        /\ streak' = run.n
        /\ streak_acks' = run.acks
        /\ last' = [Obs("process_response") EXCEPT !.data = data,
                        !.acks = st.acks, !.trace = st.trace]
        /\ UNCHANGED <<kind, serial_, radio_addr_, ready_, transmitting_,
                       current_channel_, send_callback_, ack_callback_, accepted,
                       lifecycle, conv, resampler_vars>>

ProcessResponse(data) ==
    LET st  == process_response(data)
        run == RunAfter([n |-> streak, acks |-> streak_acks], st.trace)
    IN  /\ rx_buffer_' = st.buf
        /\ streak' = run.n
        /\ streak_acks' = run.acks
        /\ last' = [Obs("process_response") EXCEPT !.data = data,
                        !.acks = st.acks, !.trace = st.trace]
        /\ UNCHANGED <<kind, serial_, radio_addr_, ready_, transmitting_,
                       current_channel_, send_callback_, ack_callback_, accepted,
                       lifecycle, conv, resampler_vars>>

\* Elecraft only
SetPower(watts) ==
    /\ kind = "Elecraft"
    /\ last' = [Obs("set_power") EXCEPT !.num = watts,
                                        !.sent = Elecraft_set_power(watts)]
    /\ UNCHANGED <<kind, serial_, radio_addr_, ready_, transmitting_,
                   current_channel_, send_callback_, ack_callback_, rx_buffer_,
                   accepted, streak, streak_acks, lifecycle, conv, resampler_vars>>

SetAntenna(ant) ==
    /\ kind = "Elecraft"
    /\ last' = [Obs("set_antenna") EXCEPT !.num = ant,
                                          !.sent = Elecraft_set_antenna(ant)]
    /\ UNCHANGED <<kind, serial_, radio_addr_, ready_, transmitting_,
                   current_channel_, send_callback_, ack_callback_, rx_buffer_,
                   accepted, streak, streak_acks, lifecycle, conv, resampler_vars>>

\* IcomCiv only
SetRadioAddress(addr) ==
    /\ kind = "IcomCiv"
    /\ radio_addr_' = addr
    /\ last' = [Obs("set_radio_address") EXCEPT !.num = addr]
    /\ UNCHANGED <<kind, serial_, ready_, transmitting_, current_channel_,
                   send_callback_, ack_callback_, rx_buffer_, accepted,
                   streak, streak_acks, lifecycle, conv, resampler_vars>>

\* ----------------------------------------------------------- the API runs
\* bytes the radio answers with in the API runs: a terminator and one other
ApiBytes == IF IsKenwood THEN {SEMICOLON, 65} ELSE {CIV_EOM, CIV_PREAMBLE}

Next ==
    \/ Initialize
    \/ Shutdown
    \/ Start
    \/ Stop
    \/ \E channel \in Channels : SetChannel(channel)
    \/ GetChannel
    \/ \E transmit \in BOOLEAN : SetPtt(transmit)
    \/ IsTransmitting
    \/ IsReady
    \/ GetPortConfig
    \/ \E callback \in Callbacks \cup {None} : RegisterSendCallback(callback)
    \/ \E callback \in Callbacks \cup {None} : RegisterAckCallback(callback)
    \/ \E data \in SeqsOf(ApiBytes, 0, MaxData) :
          /\ Len(rx_buffer_) + Len(data) <= MaxBuf
          /\ ProcessResponse(data)
    \/ \E watts \in Watts : SetPower(watts)
    \/ \E ant \in Antennas : SetAntenna(ant)
    \/ \E addr \in Addrs : SetRadioAddress(addr)

Spec == Init /\ [][Next]_vars

\* ------------------------------------------------------- the framing runs
\* the receive side alone, fed every byte the frame tests look at
FrameBytes ==
    IF IsKenwood THEN {SEMICOLON, 65, 48}
    ELSE {CIV_EOM, CIV_PREAMBLE, CIV_ACK, CIV_NAK}

InitRx ==
    /\ Init
    /\ HasBuffer
    /\ serial_
    /\ radio_addr_ \in {0, IC_7300}

NextRx ==
    \/ Initialize
    \/ Shutdown
    \/ \E callback \in Callbacks \cup {None} : RegisterAckCallback(callback)
    \/ \E data \in SeqsOf(FrameBytes, 0, MaxData) :
          /\ Len(rx_buffer_) + Len(data) <= MaxFrame
          /\ ProcessResponse(data)

SpecRx == InitRx /\ [][NextRx]_vars

\* ----------------------------------------------------- the Icom frame runs
\* an Icom codec fed one byte per call, up to frames with bytes in front
MaxCiv == 7

InitCiv == InitRx /\ kind = "IcomCiv"

NextCiv ==
    \/ Initialize
    \/ \E callback \in {1, None} : RegisterAckCallback(callback)
    \/ \E c \in FrameBytes :
          /\ Len(rx_buffer_) < MaxCiv
          /\ ProcessResponse(<<c>>)

SpecCiv == InitCiv /\ [][NextCiv]_vars

\* ------------------------------------------------------- the split runs
\* the receive side alone, fed calls of up to MaxSplit bytes that start,
\* continue and end frames
MaxSplit == 3

SplitBytes ==
    IF IsKenwood THEN {SEMICOLON, 65} ELSE {CIV_EOM, CIV_PREAMBLE, CIV_ACK}

NextSplit ==
    \/ \E callback \in {1, None} : RegisterAckCallback(callback)
    \/ \E data \in SeqsOf(SplitBytes, 0, MaxSplit) :
          /\ Len(rx_buffer_) + Len(data) <= MaxFrame
          /\ ProcessResponse(data)

SpecSplit == InitRx /\ [][NextSplit]_vars

\* ------------------------------------------------------ the overflow runs
\* the receive side alone, fed long runs of one byte and the terminator
FillBytes == IF IsKenwood THEN {SEMICOLON, 65} ELSE {CIV_EOM, 0}

NextOverflow ==
    \/ Initialize
    \/ \E callback \in {1, None} : RegisterAckCallback(callback)
    \/ \E data \in SeqsOf(FillBytes, 1, MaxFill) : ProcessResponse(data)

SpecOverflow == InitRx /\ [][NextOverflow]_vars


\* ------------------------------------------------------- the emission runs
\* one set_channel per run, over many frequencies, modes and addresses
\* the uint32_t with decimal representation <a><b>, b being the last four
\* digits: a * 10000 + b, for a * 10000 + b < 2^32
U32OfDec(a, b) ==
    LET p == a * 625
        l == (p % 4096) * 16 + b
    IN  [hi |-> (p \div 4096) + (l \div WORD), lo |-> l % WORD]

RECURSIVE Pow10(_)
Pow10(n) == IF n = 0 THEN 1 ELSE 10 * Pow10(n - 1)

RECURSIVE DigitsValue(_, _)
\* the number whose decimal digit i (0 = units) is d[i + 1], for i < n
DigitsValue(d, n) ==
    IF n = 0 THEN 0 ELSE d[n] * Pow10(n - 1) + DigitsValue(d, n - 1)

UINT32_MAX == [hi |-> 65535, lo |-> 65535]

\* uint32_t frequencies: every pattern of 0s and 9s in the nine low decimal
\* digits, and values with mixed digits up to 2^32 - 1
EmitFreqs ==
    { U32OfDec(DigitsValue(a, 5), DigitsValue(b, 4)) :
          a \in [1..5 -> {0, 9}], b \in [1..4 -> {0, 9}] }
    \cup { U32OfDec(1425, 0), U32OfDec(710, 2500), U32OfDec(123456, 7890),
           U32OfDec(98765, 4321), U32OfDec(100000, 0), U32OfDec(214748, 3648),
           U32OfDec(400000, 5), U32OfDec(429496, 7295) }

EmitChannels ==
    { [DefaultChannel EXCEPT !.rx_frequency = f] : f \in EmitFreqs }
    \cup { [DefaultChannel EXCEPT !.rx_frequency = U32Of(14250000), !.rx_mode = m] :
             m \in RadioModes }

\* radio addresses, the frame bytes FD and FE among them
EmitAddrs == {0, IC_7000, IC_7300, CIV_EOM, 255}

InitEmit ==
    /\ Init
    /\ serial_
    /\ radio_addr_ \in {0, IC_7300}

NextEmit ==
    /\ accepted = DefaultChannel
    /\ \/ Initialize
       \/ \E transmit \in BOOLEAN : SetPtt(transmit)
       \/ \E addr \in EmitAddrs : SetRadioAddress(addr)
       \/ \E channel \in EmitChannels : SetChannel(channel)

SpecEmit == InitEmit /\ [][NextEmit]_vars

\* ------------------------------------------------------- the channel runs
\* set_channel with channels that share the receive frequency and mode and
\* differ in one other member
BaseChannels ==
    { [DefaultChannel EXCEPT !.rx_frequency = U32Of(14250000)],
      [DefaultChannel EXCEPT !.rx_frequency = U32Of(7102500), !.rx_mode = "LSB"] }

ChannelVariants ==
    UNION { { c,
              [c EXCEPT !.id = 7],
              [c EXCEPT !.tx_frequency = U32Of(14250000)],
              [c EXCEPT !.tx_mode = "CW"],
              [c EXCEPT !.antenna = 2],
              [c EXCEPT !.power = 5],
              [c EXCEPT !.attenuation = 10],
              [c EXCEPT !.in_use = TRUE] } : c \in BaseChannels }

InitChannel ==
    /\ Init
    /\ serial_
    /\ radio_addr_ \in {0, IC_7300}

NextChannel ==
    \/ Initialize
    \/ \E transmit \in BOOLEAN : SetPtt(transmit)
    \/ \E channel \in ChannelVariants : SetChannel(channel)

SpecChannel == InitChannel /\ [][NextChannel]_vars

\* ------------------------------------------------------- resampler runs
MaxInput == 3
MaxLong == 6
MaxPushed == 7

Samples == {0, 1}

\* inputs of one call: every short sequence of samples, and longer ones
\* that are all zero or hold a single 1
SampleInputs ==
    SeqsOf(Samples, 0, MaxInput)
    \cup { [i \in 1..n |-> IF i = k THEN 1 ELSE 0] :
               n \in (MaxInput + 1)..MaxLong, k \in 0..MaxLong }

\* <<ratio, taps_per_phase>> of the instances constructed
ResamplerConfigs == {<<1, 1>>, <<1, 2>>, <<2, 1>>, <<2, 2>>, <<3, 1>>, <<6, 1>>}

Decimate(input) ==
    LET st == decimate(input)
    IN  /\ history_' = st.history
        /\ history_pos_' = st.pos
        /\ rs' = [RsObs("decimate") EXCEPT !.input = input, !.output = st.out,
                                           !.ret = Len(st.out)]
        /\ written' = written \o input
        /\ tone' = measure_frequency_power_loop(tone, st.out)
        /\ UNCHANGED <<radio_vars, ratio_, taps_per_phase_, total_taps_, coeffs_>>

Interpolate(input) ==
    LET st == interpolate(input)
    IN  /\ history_' = st.history
        /\ history_pos_' = st.pos
        /\ rs' = [RsObs("interpolate") EXCEPT !.input = input, !.output = st.out,
                                              !.ret = Len(st.out)]
        /\ written' = written \o ZeroStuffed(input, ratio_)
        /\ UNCHANGED <<radio_vars, ratio_, taps_per_phase_, total_taps_, coeffs_, tone>>

\* variant: the write position is kept
Reset_keeps_position ==
    /\ history_' = [i \in 1..Len(history_) |-> 0]
    /\ history_pos_' = history_pos_
    /\ rs' = RsObs("reset")
    /\ written' = <<>>
    /\ UNCHANGED <<radio_vars, ratio_, taps_per_phase_, total_taps_, coeffs_, tone>>

\* Resampler::reset
Reset ==
    /\ history_' = [i \in 1..Len(history_) |-> 0]
    /\ history_pos_' = 0
    /\ rs' = RsObs("reset")
    /\ written' = <<>>
    /\ UNCHANGED <<radio_vars, ratio_, taps_per_phase_, total_taps_, coeffs_, tone>>

InitResampler ==
    /\ RadioInit
    /\ kind = "Kenwood"
    /\ ~serial_
    /\ \E cfg \in ResamplerConfigs : Construct(cfg[1], cfg[2])
    /\ tone = NoTone

NextResampler ==
    \/ \E input \in SampleInputs :
          /\ Len(written) + Len(input) <= MaxPushed
          /\ Decimate(input)
    \/ \E input \in SampleInputs :
          /\ Len(written) + Len(input) * ratio_ <= MaxPushed
          /\ Interpolate(input)
    \/ Reset

SpecResampler == InitResampler /\ [][NextResampler]_vars

\* ----------------------------------------------------------- the alias run
\* test_decimate_rejects_alias: the tone is fed to decimate ratio_ samples
\* per call (each call then gives the one output a single call over the
\* whole tone gives at that place) and the outputs are measured as they come.
ToneChunk(first) == [i \in 1..ratio_ |-> TONE_5K[((first + i - 1) % 48) + 1]]

DecimateTone ==
    /\ tone.on
    /\ Len(written) + ratio_ <= TONE_SAMPLES
    /\ Decimate(ToneChunk(Len(written)))

InitTone ==
    /\ RadioInit
    /\ kind = "Kenwood"
    /\ ~serial_
    /\ Construct(DEFAULT_RATIO, DEFAULT_TAPS)
    /\ tone = [NoTone EXCEPT !.on = TRUE]

NextTone == DecimateTone

SpecTone == InitTone /\ [][NextTone]_vars

\* ------------------------------------------------- Elecraft command runs
\* int arguments given to Elecraft::set_power and Elecraft::set_antenna:
\* in the documented range, at its edges and outside it
PowerArgs == {0, 5, 100, 999, 1000, 10000, -5}

AntennaArgs == {0, 1, 2, 3}

InitElecraft == Init /\ kind = "Elecraft"

NextElecraft ==
    \/ Initialize
    \/ Shutdown
    \/ \E callback \in Callbacks \cup {None} : RegisterSendCallback(callback)
    \/ \E watts \in PowerArgs : SetPower(watts)
    \/ \E ant \in AntennaArgs : SetAntenna(ant)

SpecElecraft == InitElecraft /\ [][NextElecraft]_vars

\* ------------------------------------------------- conversion functions
\* The static conversion functions are applied to arguments drawn from the
\* sets below, one encoder per run (the functions keep no state); a decoder
\* is applied to the bytes the encoder just produced, or to any mode code.
ConvFreqs == EmitFreqs \cup {U32OfDec(399999, 9999), U32OfDec(299999, 9999)}

ModeCodes == (0..10) \cup {23, 255}

ConvUnchanged ==
    UNCHANGED <<kind, serial_, radio_addr_, ready_, transmitting_,
                current_channel_, send_callback_, ack_callback_, rx_buffer_,
                last, accepted, streak, streak_acks, lifecycle,
                resampler_vars>>

FreqToBcd(f) ==
    /\ conv = Idle
    /\ conv' = [Idle EXCEPT !.fn = "freq_to_bcd", !.freq = f,
                            !.bytes = freq_to_bcd(f, 5)]
    /\ ConvUnchanged

BcdToFreq ==
    /\ conv.fn = "freq_to_bcd"
    /\ conv' = [conv EXCEPT !.fn = "bcd_to_freq", !.chained = TRUE,
                            !.back = bcd_to_freq(conv.bytes, 5)]
    /\ ConvUnchanged

FreqToPackedBcd(f) ==
    /\ conv = Idle
    /\ conv' = [Idle EXCEPT !.fn = "freq_to_packed_bcd", !.freq = f,
                            !.bytes = freq_to_packed_bcd(f)]
    /\ ConvUnchanged

PackedBcdToFreq ==
    /\ conv.fn = "freq_to_packed_bcd"
    /\ conv' = [conv EXCEPT !.fn = "packed_bcd_to_freq", !.chained = TRUE,
                            !.back = packed_bcd_to_freq(conv.bytes)]
    /\ ConvUnchanged

RadioModeToKenwood(m) ==
    /\ conv = Idle
    /\ conv' = [Idle EXCEPT !.fn = "radio_mode_to_kenwood", !.mode = m,
                            !.code = radio_mode_to_kenwood(m)]
    /\ ConvUnchanged

KenwoodToRadioMode(c) ==
    /\ LET chained == conv.fn = "radio_mode_to_kenwood" /\ conv.code = c
       IN  conv' = [Idle EXCEPT !.fn = "kenwood_to_radio_mode", !.code = c,
                                !.mode = IF chained THEN conv.mode ELSE Idle.mode,
                                !.chained = chained,
                                !.back_mode = kenwood_to_radio_mode(c)]
    /\ ConvUnchanged

RadioModeToCiv(m) ==
    /\ conv = Idle
    /\ conv' = [Idle EXCEPT !.fn = "radio_mode_to_civ", !.mode = m,
                            !.code = radio_mode_to_civ(m)]
    /\ ConvUnchanged

CivToRadioMode(c) ==
    /\ LET chained == conv.fn = "radio_mode_to_civ" /\ conv.code = c
       IN  conv' = [Idle EXCEPT !.fn = "civ_to_radio_mode", !.code = c,
                                !.mode = IF chained THEN conv.mode ELSE Idle.mode,
                                !.chained = chained,
                                !.back_mode = civ_to_radio_mode(c)]
    /\ ConvUnchanged

NextConv ==
    \/ \E f \in ConvFreqs : FreqToBcd(f)
    \/ BcdToFreq
    \/ \E f \in ConvFreqs : FreqToPackedBcd(f)
    \/ PackedBcdToFreq
    \/ \E m \in RadioModes : RadioModeToKenwood(m)
    \/ \E c \in ModeCodes : KenwoodToRadioMode(c)
    \/ \E m \in RadioModes : RadioModeToCiv(m)
    \/ \E c \in ModeCodes : CivToRadioMode(c)

InitConv == Init /\ kind = "IcomCiv" /\ serial_

SpecConv == InitConv /\ [][NextConv]_vars

\* =================================================================== claims
IsSendOp == last.op \in {"set_channel", "set_ptt", "set_power", "set_antenna"}

\* a frequency-set / mode-set command of the codec's protocol, by its framing
IsFreqSet(bytes) ==
    CASE IsKenwood         -> Len(bytes) = 14 /\ bytes[1] = 70 /\ bytes[2] = 65
                              /\ bytes[14] = SEMICOLON
      [] kind = "IcomCiv"  -> Len(bytes) = 11 /\ bytes[5] = CIV_SET_FREQ
      [] kind = "YaesuCat" -> Len(bytes) = 5 /\ bytes[5] = YAESU_SET_FREQ

IsModeSet(bytes) ==
    CASE IsKenwood         -> Len(bytes) = 4 /\ bytes[1] = 77 /\ bytes[2] = 68
                              /\ bytes[4] = SEMICOLON
      [] kind = "IcomCiv"  -> Len(bytes) = 7 /\ bytes[5] = CIV_SET_MODE
      [] kind = "YaesuCat" -> Len(bytes) = 5 /\ bytes[5] = YAESU_SET_MODE

\* C1: set_channel returns false, emits nothing and keeps the stored channel
\* when the codec is not ready or has neither a send callback nor a serial
\* collaborator, and returns true in every other state (a registered send
\* callback without a serial collaborator included).
C1_SetChannelNeedsReadyAndDestination ==
    last.op = "set_channel" =>
        IF ~ready_ \/ (send_callback_ = None /\ ~serial_)
        THEN /\ last.ret = FALSE
             /\ last.sent = <<>>
             /\ current_channel_ = last.pre_channel
        ELSE last.ret = TRUE

\* C2: a set_channel that returns true makes exactly two send invocations,
\* the frequency-set command first and the mode-set command second, and the
\* passed channel is the stored one when the call returns, no acknowledgment
\* having been awaited.
C2_SetChannelFreqThenMode ==
    (last.op = "set_channel" /\ last.ret) =>
        /\ Len(last.sent) = 2
        /\ IsFreqSet(last.sent[1].bytes)
        /\ IsModeSet(last.sent[2].bytes)
        /\ last.acks = <<>>
        /\ current_channel_ = last.channel

C2_Witness ==
    /\ last.op = "set_channel"
    /\ last.ret
    /\ Len(last.sent) = 2
    /\ last.channel.rx_frequency = U32Of(14250000)
    /\ current_channel_ = last.channel
    /\ last.pre_channel # last.channel

\* C3: the stored channel, which get_channel returns, is always the argument
\* of the most recent set_channel that returned true (the default channel if
\* there was none); no other call and no failed set_channel changes it.
C3_GetChannelIsLastAccepted ==
    /\ current_channel_ = accepted
    /\ last.op = "get_channel" => last.channel = accepted
    /\ (last.op # "set_channel" \/ ~last.ret) => current_channel_ = last.pre_channel

C3_Witness ==
    /\ last.op = "set_channel"
    /\ ~last.ret
    /\ accepted # DefaultChannel
    /\ last.channel # accepted
    /\ current_channel_ = accepted

\* C4 (as stated): right after any set_ptt(t), in any lifecycle state, the
\* transmitting flag equals t.
C4_PttFlagUnconditional ==
    last.op = "set_ptt" => transmitting_ = last.flag

\* C4 (amended): right after set_ptt(t) on a ready codec with a serial
\* collaborator the transmitting flag equals t; on a codec that is not ready
\* the call leaves the flag as it was.
C4_PttFlagWhenReady ==
    last.op = "set_ptt" =>
        /\ (ready_ /\ serial_) => transmitting_ = last.flag
        /\ ~ready_ => transmitting_ = last.pre_tx

C4_Witness ==
    /\ last.op = "set_ptt"
    /\ ~ready_
    /\ last.flag = FALSE
    /\ last.pre_tx = TRUE
    /\ transmitting_ = TRUE

\* C5: no emitting call (set_channel, set_ptt, Elecraft set_power and
\* set_antenna) reaches the send callback or the serial write while the codec
\* is not ready.
C5_NoEmissionWhenNotReady ==
    (IsSendOp /\ ~ready_) => last.sent = <<>>

\* the frames a call hands to the send primitive
FramesOf(op) ==
    CASE op = "set_channel" -> 2
      [] op \in {"set_ptt", "set_power", "set_antenna"} -> 1
      [] OTHER -> 0

\* C6: every emitted frame goes to exactly one destination, the currently
\* registered send callback if there is one and the serial write otherwise,
\* never both and never an earlier registration; acknowledgments go to the
\* currently registered acknowledge callback only.
C6_OneDestinationPerFrame ==
    /\ Len(last.sent) <= FramesOf(last.op)
    /\ \A i \in DOMAIN last.sent :
          IF send_callback_ # None
          THEN last.sent[i].to = "callback" /\ last.sent[i].cb = send_callback_
          ELSE last.sent[i].to = "serial" /\ serial_
    /\ \A i \in DOMAIN last.acks :
          ack_callback_ # None /\ last.acks[i] = ack_callback_

C6_Witness ==
    /\ last.op = "set_channel"
    /\ serial_
    /\ send_callback_ = 2
    /\ Len(last.sent) = 2
    /\ \A i \in DOMAIN last.sent : last.sent[i].to = "callback" /\ last.sent[i].cb = 2

\* number of terminator bytes in a byte sequence
RECURSIVE CountByte(_, _)
CountByte(data, c) ==
    IF data = <<>> THEN 0
    ELSE (IF Head(data) = c THEN 1 ELSE 0) + CountByte(Tail(data), c)

\* C7: Kenwood/Elecraft process_response: each ';' fed invokes the registered
\* acknowledge callback exactly once and leaves the parse buffer empty right
\* after it, whatever was buffered before; any other byte invokes nothing; so
\* the invocations of a call number the ';' bytes of its data.
C7_KenwoodAckPerSemicolon ==
    (IsKenwood /\ last.op = "process_response" /\ ack_callback_ # None) =>
        /\ Len(last.trace) = Len(last.data)
        /\ \A i \in DOMAIN last.trace :
              IF last.data[i] = SEMICOLON
              THEN last.trace[i].fired = 1 /\ last.trace[i].size = 0
              ELSE last.trace[i].fired = 0
        /\ Len(last.acks) = CountByte(last.data, SEMICOLON)

C7_Witness ==
    /\ IsKenwood
    /\ last.op = "process_response"
    /\ ack_callback_ # None
    /\ last.pre_buffer > RX_LIMIT - 2
    /\ last.data = <<SEMICOLON, SEMICOLON>>
    /\ Len(last.acks) = 2
    /\ rx_buffer_ = <<>>

\* the received frame starts with the double preamble FE FE
HasPreamble(head) ==
    Len(head) >= 2 /\ head[1] = CIV_PREAMBLE /\ head[2] = CIV_PREAMBLE

\* C8 (as stated): Icom process_response: whenever 0xFD arrives and the bytes
\* buffered for the frame begin with FE FE, the acknowledge callback is
\* invoked exactly once and the buffer is empty afterwards.
C8_IcomAckOnPreamble ==
    (kind = "IcomCiv" /\ last.op = "process_response" /\ ack_callback_ # None) =>
        \A i \in DOMAIN last.trace :
            (last.trace[i].byte = CIV_EOM /\ HasPreamble(last.trace[i].head)) =>
                last.trace[i].fired = 1 /\ last.trace[i].size = 0

\* C8 (amended): whenever 0xFD arrives and the bytes buffered for the frame,
\* the 0xFD included, number at least 6, begin with FE FE and hold the ACK
\* code 0xFB at offset 4, the acknowledge callback is invoked exactly once;
\* for an 0xFD closing any other frame it is not invoked; in both cases the
\* buffer is empty afterwards.
C8_IcomAckOnAckFrame ==
    (kind = "IcomCiv" /\ last.op = "process_response" /\ ack_callback_ # None) =>
        \A i \in DOMAIN last.trace :
            last.trace[i].byte = CIV_EOM =>
                /\ last.trace[i].size = 0
                /\ last.trace[i].fired =
                      IF /\ last.trace[i].flen >= 6
                         /\ HasPreamble(last.trace[i].head)
                         /\ last.trace[i].head[5] = CIV_ACK
                      THEN 1 ELSE 0

C8_Witness ==
    /\ kind = "IcomCiv"
    /\ last.op = "process_response"
    /\ ack_callback_ # None
    /\ Len(last.acks) = 1
    /\ \E i \in DOMAIN last.trace :
          /\ last.trace[i].byte = CIV_EOM
          /\ last.trace[i].flen = 6
          /\ last.trace[i].fired = 1
    /\ rx_buffer_ = <<>>

\* C9 (as stated): Kenwood and Icom: starting from an empty buffer, once 256
\* bytes without a terminator have been processed the buffer is empty, and
\* no acknowledgment was made.
C9_OverflowClearAt256 ==
    (HasBuffer /\ streak = RX_LIMIT) => (rx_buffer_ = <<>> /\ streak_acks = 0)

\* C9 (amended): starting from an empty buffer, the buffer holds all the
\* bytes fed as long as they are at most 256 and contain no terminator; the
\* overflow clear comes with the 257th such byte, after which the buffer is
\* empty, and no acknowledgment was made.
C9_OverflowClearAt257 ==
    HasBuffer =>
        /\ streak <= RX_LIMIT => Len(rx_buffer_) = streak
        /\ streak = RX_LIMIT + 1 => rx_buffer_ = <<>>
        /\ streak <= RX_LIMIT + 1 => streak_acks = 0

C9_Witness ==
    /\ HasBuffer
    /\ ack_callback_ # None
    /\ streak = RX_LIMIT + 1
    /\ rx_buffer_ = <<>>
    /\ last.op = "process_response"
    /\ last.pre_buffer = RX_LIMIT

\* C10: Yaesu process_response invokes the registered acknowledge callback
\* exactly once for a call of length > 0, whatever the bytes and whether or
\* not the codec is ready, never for a call of length 0, and keeps no
\* receive state.
C10_YaesuAckPerCall ==
    (kind = "YaesuCat" /\ last.op = "process_response") =>
        /\ Len(last.acks) =
              IF Len(last.data) > 0 /\ ack_callback_ # None THEN 1 ELSE 0
        /\ rx_buffer_ = <<>>
        /\ last.pre_buffer = 0

C10_Witness ==
    /\ kind = "YaesuCat"
    /\ last.op = "process_response"
    /\ ~ready_
    /\ Len(last.data) = 2
    /\ last.acks = <<ack_callback_>>
    /\ ack_callback_ # None


\* C11: is_ready() is false after construction and afterwards true exactly
\* when the most recent call among initialize and shutdown was initialize;
\* start and is_ready return the flag; no call other than initialize and
\* shutdown changes it (stop included).
C11_ReadyFollowsLifecycle ==
    /\ ready_ = (lifecycle = "initialize")
    /\ last.op = "construct" => ~ready_
    /\ last.op \in {"start", "is_ready"} => last.ret = ready_
    /\ last.op \notin {"construct", "initialize", "shutdown"} =>
          ready_ = last.pre_ready

C11_Witness ==
    /\ last.op = "stop"
    /\ last.pre_ready
    /\ ready_
    /\ lifecycle = "initialize"

\* the fields of the codec instance
ProgramState == <<kind, serial_, radio_addr_, ready_, transmitting_,
                  current_channel_, send_callback_, ack_callback_, rx_buffer_>>

\* C12: initialize returns true and leaves the codec ready with an empty
\* parse buffer and the same transmitting flag, stored channel and callbacks;
\* an initialize right after an initialize changes nothing; shutdown only
\* clears the ready flag, from any state, and a shutdown right after a
\* shutdown changes nothing.
C12_LifecycleIdempotent ==
    [][ /\ last'.op = "initialize" =>
              /\ last'.ret
              /\ ready_'
              /\ rx_buffer_' = <<>>
              /\ UNCHANGED <<kind, serial_, radio_addr_, transmitting_,
                             current_channel_, send_callback_, ack_callback_>>
        /\ (last.op = "initialize" /\ last'.op = "initialize") =>
              UNCHANGED ProgramState
        /\ last'.op = "shutdown" =>
              /\ ~ready_'
              /\ UNCHANGED <<kind, serial_, radio_addr_, transmitting_,
                             current_channel_, send_callback_, ack_callback_,
                             rx_buffer_>>
        /\ (last.op = "shutdown" /\ last'.op = "shutdown") =>
              UNCHANGED ProgramState
      ]_vars

C12_Witness ==
    /\ last.op = "initialize"
    /\ last.pre_ready
    /\ last.ret
    /\ ready_
    /\ transmitting_
    /\ current_channel_ # DefaultChannel
    /\ ack_callback_ # None


\* decimal digit i of a uint32_t, digit 0 being the units; the value is
\* hi * 60000 + (hi * 5536 + lo), split into the last four digits and the rest
Digit(x, i) ==
    LET t    == x.hi * 5536 + x.lo
        rest == x.hi * 6 + (t \div 10000)
        low4 == t % 10000
    IN  IF i < 4 THEN (low4 \div Pow10(i)) % 10
        ELSE (rest \div Pow10(i - 4)) % 10

\* digit i of x / 10 is digit i + 1 of x
DigitOfTenth(x, i) == Digit(x, i + 1)

\* the native mode codes the protocol tables give
KenwoodCodeOf(m) ==
    CASE m \in {"LSB", "DATA_LSB"} -> 1
      [] m = "CW"                  -> 3
      [] m = "FM"                  -> 4
      [] m = "AM"                  -> 5
      [] m \in {"FSK", "RTTY"}     -> 6
      [] m = "CW_R"                -> 7
      [] m = "FSK_R"               -> 9
      [] OTHER                     -> 2

CivCodeOf(m) ==
    CASE m \in {"LSB", "DATA_LSB"} -> 0
      [] m = "AM"                  -> 2
      [] m = "CW"                  -> 3
      [] m \in {"RTTY", "FSK"}     -> 4
      [] m = "FM"                  -> 5
      [] m = "CW_R"                -> 7
      [] m = "FSK_R"               -> 8
      [] OTHER                     -> 1

\* C13: a successful Kenwood set_channel emits 'F' 'A', the 11 decimal
\* digits of rx_frequency (zero padded) and ';', then 'M' 'D', the one-digit
\* mode code and ';'; 14250000 Hz USB gives "FA00014250000;" and "MD2;".
C13_KenwoodSetChannelBytes ==
    (IsKenwood /\ last.op = "set_channel" /\ last.ret) =>
        LET f == last.channel.rx_frequency
            m == last.channel.rx_mode
        IN  /\ Len(last.sent) = 2
            /\ Len(last.sent[1].bytes) = 14
            /\ last.sent[1].bytes =
                  <<70, 65>> \o [i \in 1..11 |-> 48 + Digit(f, 11 - i)] \o <<59>>
            /\ last.sent[2].bytes = <<77, 68, 48 + KenwoodCodeOf(m), 59>>
            /\ (f = U32Of(14250000) /\ m = "USB") =>
                  /\ last.sent[1].bytes =
                        <<70, 65, 48, 48, 48, 49, 52, 50, 53, 48, 48, 48, 48, 59>>
                  /\ last.sent[2].bytes = <<77, 68, 50, 59>>

C13_Witness ==
    /\ kind = "Kenwood"
    /\ last.op = "set_channel"
    /\ last.ret
    /\ last.channel.rx_frequency = UINT32_MAX
    /\ last.sent[1].bytes =
          <<70, 65, 48, 52, 50, 57, 52, 57, 54, 55, 50, 57, 53, 59>>

\* C14: a successful Icom set_channel emits FE FE addr E0 05 b0..b4 FD, byte
\* bi holding decimal digit 2i of rx_frequency in the low and digit 2i+1 in
\* the high nibble, then FE FE addr E0 06 code FD; addr is the address set
\* when the frame is built; 0x94, 14250000 Hz, USB gives
\* FE FE 94 E0 05 00 00 25 14 00 FD and FE FE 94 E0 06 01 FD.
C14_IcomSetChannelBytes ==
    (kind = "IcomCiv" /\ last.op = "set_channel" /\ last.ret) =>
        LET f == last.channel.rx_frequency
            m == last.channel.rx_mode
        IN  /\ Len(last.sent) = 2
            /\ last.sent[1].bytes =
                  <<254, 254, radio_addr_, 224, 5>>
                  \o [i \in 1..5 |-> 16 * Digit(f, 2 * i - 1) + Digit(f, 2 * i - 2)]
                  \o <<253>>
            /\ last.sent[2].bytes = <<254, 254, radio_addr_, 224, 6, CivCodeOf(m), 253>>
            /\ (radio_addr_ = 148 /\ f = U32Of(14250000) /\ m = "USB") =>
                  /\ last.sent[1].bytes = <<254, 254, 148, 224, 5, 0, 0, 37, 20, 0, 253>>
                  /\ last.sent[2].bytes = <<254, 254, 148, 224, 6, 1, 253>>

C14_Witness ==
    /\ kind = "IcomCiv"
    /\ last.op = "set_channel"
    /\ last.ret
    /\ radio_addr_ = IC_7000
    /\ last.channel.rx_frequency = U32OfDec(123456, 7890)
    /\ last.sent[1].bytes = <<254, 254, 112, 224, 5, 144, 120, 86, 52, 18, 253>>

\* C15: every byte sequence the Yaesu codec emits has 5 bytes; a successful
\* set_channel emits the low 8 decimal digits of rx_frequency / 10, two per
\* byte and most significant first, then 0x01, and after that the mode code,
\* 00 00 00 and 0x07; 14250000 Hz USB gives 01 42 50 00 01 and 01 00 00 00 07.
C15_YaesuSetChannelBytes ==
    kind = "YaesuCat" =>
        /\ \A i \in DOMAIN last.sent : Len(last.sent[i].bytes) = 5
        /\ (last.op = "set_channel" /\ last.ret) =>
              LET f == last.channel.rx_frequency
                  m == last.channel.rx_mode
              IN  /\ Len(last.sent) = 2
                  /\ last.sent[1].bytes =
                        [i \in 1..4 |-> 16 * DigitOfTenth(f, 9 - 2 * i)
                                        + DigitOfTenth(f, 8 - 2 * i)]
                        \o <<1>>
                  /\ last.sent[2].bytes = <<radio_mode_to_yaesu(m), 0, 0, 0, 7>>
                  /\ (f = U32Of(14250000) /\ m = "USB") =>
                        /\ last.sent[1].bytes = <<1, 66, 80, 0, 1>>
                        /\ last.sent[2].bytes = <<1, 0, 0, 0, 7>>

C15_Witness ==
    /\ kind = "YaesuCat"
    /\ last.op = "set_channel"
    /\ last.ret
    /\ last.channel.rx_frequency = U32OfDec(98765, 4321)
    /\ last.sent[1].bytes = <<152, 118, 84, 50, 1>>

\* C16: on a ready codec with a serial collaborator every set_ptt(t) emits
\* exactly one frame, whatever the transmitting flag was: "TX;" / "RX;"
\* (Kenwood, Elecraft), FE FE addr E0 1C 00 01/00 FD (Icom), 00 00 00 00 08 /
\* 00 00 00 00 88 (Yaesu).
C16_PttFrames ==
    (last.op = "set_ptt" /\ ready_ /\ serial_) =>
        /\ Len(last.sent) = 1
        /\ last.sent[1].bytes =
              CASE IsKenwood ->
                     IF last.flag THEN <<84, 88, 59>> ELSE <<82, 88, 59>>
                [] kind = "IcomCiv" ->
                     <<254, 254, radio_addr_, 224, 28, 0,
                       IF last.flag THEN 1 ELSE 0, 253>>
                [] kind = "YaesuCat" ->
                     <<0, 0, 0, 0, IF last.flag THEN 8 ELSE 136>>

C16_Witness ==
    /\ last.op = "set_ptt"
    /\ ready_
    /\ serial_
    /\ last.flag
    /\ last.pre_tx
    /\ Len(last.sent) = 1

\* the number held by a uint32_t below 2^31
U32Val(x) == x.hi * WORD + x.lo

Nibbles(bytes) ==
    {bytes[i] % 16 : i \in DOMAIN bytes} \cup {bytes[i] \div 16 : i \in DOMAIN bytes}

\* C17: for every uint32_t frequency f, bcd_to_freq(freq_to_bcd(f, 5), 5) = f
\* and every nibble freq_to_bcd produces is a decimal digit; the wrap of the
\* multiplier after the tenth digit changes nothing.
C17_IcomBcdRoundTrip ==
    /\ conv.fn \in {"freq_to_bcd", "bcd_to_freq"} =>
          /\ Len(conv.bytes) = 5
          /\ \A n \in Nibbles(conv.bytes) : n \in 0..9
    /\ conv.fn = "bcd_to_freq" => conv.back = conv.freq

C17_Witness ==
    /\ conv.fn = "bcd_to_freq"
    /\ conv.freq = UINT32_MAX
    /\ conv.bytes = <<149, 114, 150, 148, 66>>
    /\ conv.back = UINT32_MAX

\* C18: for every frequency f <= 999,999,999 Hz,
\* packed_bcd_to_freq(freq_to_packed_bcd(f)) = f - (f mod 10): the last
\* decimal digit is truncated, never rounded.
C18_YaesuPackedBcdRoundTrip ==
    (/\ conv.fn = "packed_bcd_to_freq"
     /\ conv.freq.hi < 16384
     /\ U32Val(conv.freq) <= 999999999) =>
        conv.back = U32Of(U32Val(conv.freq) - (U32Val(conv.freq) % 10))

C18_Witness ==
    /\ conv.fn = "packed_bcd_to_freq"
    /\ conv.freq = U32Of(999999999)
    /\ conv.back = U32Of(999999990)

\* C19: kenwood_to_radio_mode(radio_mode_to_kenwood(m)) is m for LSB, USB,
\* CW, FM, AM, FSK, CW_R and FSK_R, FSK for RTTY, USB for DATA_USB, LSB for
\* DATA_LSB and USB for FMW, TUNE, DIG and UNKNOWN; a code outside the
\* Kenwood table decodes to USB.
C19_KenwoodModeRoundTrip ==
    conv.fn = "kenwood_to_radio_mode" =>
        /\ conv.chained =>
              conv.back_mode =
                  CASE conv.mode \in {"LSB", "USB", "CW", "FM", "AM", "FSK",
                                      "CW_R", "FSK_R"} -> conv.mode
                    [] conv.mode = "RTTY"     -> "FSK"
                    [] conv.mode = "DATA_USB" -> "USB"
                    [] conv.mode = "DATA_LSB" -> "LSB"
                    [] conv.mode \in {"FMW", "TUNE", "DIG", "UNKNOWN"} -> "USB"
        /\ conv.code \notin {1, 2, 3, 4, 5, 6, 7, 9} => conv.back_mode = "USB"

C19_Witness ==
    /\ conv.fn = "kenwood_to_radio_mode"
    /\ conv.chained
    /\ conv.mode = "RTTY"
    /\ conv.code = 6
    /\ conv.back_mode = "FSK"

\* C20: civ_to_radio_mode(radio_mode_to_civ(m)) is m for LSB, USB, AM, CW,
\* FM, RTTY and FSK_R, RTTY for FSK, LSB for DATA_LSB, USB for DATA_USB and
\* for FMW, TUNE, DIG and UNKNOWN; no other mode (CW_R) changes.
C20_IcomModeRoundTrip ==
    (conv.fn = "civ_to_radio_mode" /\ conv.chained) =>
        conv.back_mode =
            CASE conv.mode \in {"LSB", "USB", "AM", "CW", "FM", "RTTY",
                                "FSK_R"} -> conv.mode
              [] conv.mode = "FSK"      -> "RTTY"
              [] conv.mode = "DATA_LSB" -> "LSB"
              [] conv.mode = "DATA_USB" -> "USB"
              [] conv.mode \in {"FMW", "TUNE", "DIG", "UNKNOWN"} -> "USB"
              [] OTHER                  -> conv.mode

C20_Witness ==
    /\ conv.fn = "civ_to_radio_mode"
    /\ conv.chained
    /\ conv.mode = "FSK"
    /\ conv.code = 4
    /\ conv.back_mode = "RTTY"

\* C21: a Yaesu set_channel with rx_mode FSK and one with rx_mode RTTY both
\* emit the mode command 0A 00 00 00 07 (FSK and RTTY share the digital code).
C21_YaesuFskRttyShareDig ==
    (/\ kind = "YaesuCat"
     /\ last.op = "set_channel"
     /\ last.ret
     /\ last.channel.rx_mode \in {"FSK", "RTTY"}) =>
        last.sent[2].bytes = <<10, 0, 0, 0, 7>>

\* the IRadio methods
IRadioOps == {"initialize", "shutdown", "start", "stop", "set_channel",
              "get_channel", "set_ptt", "is_transmitting", "is_ready",
              "get_port_config", "register_send_callback",
              "register_ack_callback", "process_response"}

\* class Kenwood as a function: the object after the call c of one of its
\* IRadio methods on the present object, with what the call returned (ret,
\* str, got), sent and acknowledged
Kenwood_call(c) ==
    LET same == [ready |-> ready_, transmitting |-> transmitting_,
                 channel |-> current_channel_, send_callback |-> send_callback_,
                 ack_callback |-> ack_callback_, buffer |-> rx_buffer_,
                 ret |-> FALSE, str |-> "", got |-> DefaultChannel,
                 sent |-> <<>>, acks |-> <<>>]
    IN  CASE c.op = "initialize" ->
                [same EXCEPT !.buffer = <<>>, !.ready = TRUE, !.ret = TRUE]
          [] c.op = "shutdown" -> [same EXCEPT !.ready = FALSE]
          [] c.op = "start" -> [same EXCEPT !.ret = ready_]
          [] c.op = "stop" -> same
          [] c.op = "set_channel" ->
                LET r == Kenwood_set_channel(c.channel)
                IN  [same EXCEPT !.channel = r.channel, !.ret = r.ret,
                                 !.sent = r.sent]
          [] c.op = "get_channel" -> [same EXCEPT !.got = current_channel_]
          [] c.op = "set_ptt" ->
                LET r == Kenwood_set_ptt(c.flag)
                IN  [same EXCEPT !.transmitting = r.transmitting, !.sent = r.sent]
          [] c.op = "is_transmitting" -> [same EXCEPT !.ret = transmitting_]
          [] c.op = "is_ready" -> [same EXCEPT !.ret = ready_]
          [] c.op = "get_port_config" -> [same EXCEPT !.str = "9600,n,8,1"]
          [] c.op = "register_send_callback" ->
                [same EXCEPT !.send_callback = c.num]
          [] c.op = "register_ack_callback" ->
                [same EXCEPT !.ack_callback = c.num]
          [] c.op = "process_response" ->
                LET st == Kenwood_process_response(
                              [buf |-> rx_buffer_, acks |-> <<>>, trace |-> <<>>],
                              c.data)
                IN  [same EXCEPT !.buffer = st.buf, !.acks = st.acks]

\* C22: an Elecraft and a Kenwood in the same state, given the same IRadio
\* call with the same arguments, return the same values, emit the same
\* bytes, invoke the same acknowledgments and reach the same state, except
\* that get_port_config returns "38400,n,8,1" for Elecraft and "9600,n,8,1"
\* for Kenwood; both start from the same constructed state, so the same
\* holds for every sequence of calls.
C22_ElecraftIsKenwood ==
    [][ (IsKenwood /\ last'.op \in IRadioOps) =>
           LET k == Kenwood_call(last')
               seen == [ready |-> ready_', transmitting |-> transmitting_',
                        channel |-> current_channel_',
                        send_callback |-> send_callback_',
                        ack_callback |-> ack_callback_', buffer |-> rx_buffer_',
                        ret |-> last'.ret, str |-> last'.str,
                        got |-> IF last'.op = "get_channel" THEN last'.channel
                                ELSE DefaultChannel,
                        sent |-> last'.sent, acks |-> last'.acks]
           IN  /\ UNCHANGED <<kind, serial_, radio_addr_>>
               /\ IF kind = "Elecraft" /\ last'.op = "get_port_config"
                  THEN /\ k.str = "9600,n,8,1"
                       /\ seen = [k EXCEPT !.str = "38400,n,8,1"]
                  ELSE seen = k
      ]_vars

C22_Witness ==
    /\ kind = "Elecraft"
    /\ last.op = "process_response"
    /\ Len(last.acks) = 1
    /\ rx_buffer_ # <<>>
    /\ current_channel_ # DefaultChannel
    /\ transmitting_

\* C23: for every int argument set_power emits 'P' 'C', exactly three
\* decimal digits and ';', and set_antenna emits "AN1;" or "AN2;".
C23_ElecraftCommandsWellFormed ==
    /\ last.op = "set_power" =>
          \A i \in DOMAIN last.sent :
              LET b == last.sent[i].bytes
              IN  /\ Len(b) = 6
                  /\ b[1] = 80 /\ b[2] = 67
                  /\ \A j \in 3..5 : b[j] \in 48..57
                  /\ b[6] = SEMICOLON
    /\ last.op = "set_antenna" =>
          \A i \in DOMAIN last.sent :
              last.sent[i].bytes \in {<<65, 78, 49, 59>>, <<65, 78, 50, 59>>}

\* slot of the history written k + 1 pushes ago, as a 1-based index
SlotBack(k) == ((history_pos_ + total_taps_ - 1 - k) % total_taps_) + 1

\* the history holds the samples written since construction or reset, the
\* latest total_taps_ of them, and zeros in the slots not yet written
HistoryIsLatestWritten ==
    \A k \in 0..(total_taps_ - 1) :
        history_[SlotBack(k)] =
            IF k < Len(written) THEN written[Len(written) - k] ELSE 0

\* C24: decimate returns floor(input_count / R) outputs and interpolate
\* input_count * R, whatever the history; the decimation count restarts at
\* every call (3 + 3 samples with R = 6 give no output) while the samples
\* pushed by earlier calls stay in the history.
C24_ResamplerOutputCounts ==
    /\ rs.op = "decimate" =>
          /\ rs.ret = Len(rs.input) \div ratio_
          /\ Len(rs.output) = rs.ret
          /\ written = rs.pre_written \o rs.input
    /\ rs.op = "interpolate" =>
          /\ rs.ret = Len(rs.input) * ratio_
          /\ Len(rs.output) = rs.ret
    /\ rs.op \in {"decimate", "interpolate"} => HistoryIsLatestWritten

C24_Witness ==
    /\ ratio_ = 6
    /\ rs.op = "decimate"
    /\ rs.prev = "decimate"
    /\ Len(rs.input) = 3
    /\ rs.pre_written = <<0, 1, 0>>
    /\ rs.ret = 0
    /\ Len(written) = 6

\* C25: reset gives the state the constructor gives (history all zero,
\* position 0, coefficients as designed), from any state and also when
\* repeated; the state, and with it every later output, is a function of
\* what was fed since the reset.
C25_ResetRestoresConstructedState ==
    /\ rs.op = "reset" =>
          /\ history_ = [i \in 1..(ratio_ * taps_per_phase_) |-> 0]
          /\ history_pos_ = 0
          /\ written = <<>>
    /\ total_taps_ = ratio_ * taps_per_phase_
    /\ coeffs_ = design_filter(ratio_, taps_per_phase_)
    /\ history_pos_ = Len(written) % total_taps_
    /\ HistoryIsLatestWritten

\* a reset from a state with samples in the history and the position moved
C25_Witness ==
    /\ rs.op = "reset"
    /\ rs.pre_pos # 0
    /\ \E i \in DOMAIN rs.pre_history : rs.pre_history[i] # 0
    /\ history_pos_ = 0

\* C26: after reset, all-zero input to decimate gives all-zero output from
\* the first output on, whatever was processed before the reset.
C26_ZeroInZeroOutAfterReset ==
    (/\ rs.op = "decimate"
     /\ rs.prev = "reset"
     /\ \A i \in DOMAIN rs.input : rs.input[i] = 0) =>
        \A i \in DOMAIN rs.output : rs.output[i] = Num(0)

\* FE FE <to> <from> FB FD
IsAckFrame(f) ==
    /\ Len(f) = 6
    /\ HasPreamble(f)
    /\ f[5] = CIV_ACK
    /\ f[6] = CIV_EOM

\* the byte is 0xFD and the bytes accumulated since the last clear, the 0xFD
\* included, number at least 6, start with FE FE and hold 0xFB at offset 4
AckTest(e) ==
    /\ e.byte = CIV_EOM
    /\ e.flen >= 6
    /\ HasPreamble(e.head)
    /\ e.head[5] = CIV_ACK

\* C28 (as stated): Icom process_response fires the acknowledge callback
\* when and only when a 0xFD arrives and the accumulated bytes number at
\* least 6, start with FE FE and hold 0xFB at offset 4; every 0xFD clears
\* the buffer; an ACK frame preceded by stray bytes still in the buffer
\* fires nothing.
C28_IcomStrayBytesNeverAck ==
    (kind = "IcomCiv" /\ last.op = "process_response") =>
        \A i \in DOMAIN last.trace :
            LET e == last.trace[i]
            IN  /\ e.fired = IF AckTest(e) /\ ack_callback_ # None THEN 1 ELSE 0
                /\ e.byte = CIV_EOM => e.size = 0
                /\ (e.byte = CIV_EOM /\ e.flen > 6 /\ IsAckFrame(e.tail)) =>
                       e.fired = 0

\* C28 (amended): the callback, when one is registered, fires when and only
\* when a 0xFD arrives and the accumulated bytes number at least 6, start
\* with FE FE and hold 0xFB at offset 4, whatever the bytes at offsets 2 and
\* 3; every 0xFD clears the buffer; an ACK frame preceded by stray bytes
\* fires nothing unless the stray bytes themselves make the buffer pass that
\* test, and then it fires once.
C28_IcomAckIffBufferPasses ==
    (kind = "IcomCiv" /\ last.op = "process_response") =>
        \A i \in DOMAIN last.trace :
            LET e == last.trace[i]
            IN  /\ e.fired = IF AckTest(e) /\ ack_callback_ # None THEN 1 ELSE 0
                /\ e.byte = CIV_EOM => e.size = 0
                /\ (e.byte = CIV_EOM /\ e.flen > 6 /\ IsAckFrame(e.tail)
                        /\ ack_callback_ # None) =>
                       e.fired = IF HasPreamble(e.head) /\ e.head[5] = CIV_ACK
                                 THEN 1 ELSE 0

C28_Witness ==
    /\ kind = "IcomCiv"
    /\ last.op = "process_response"
    /\ ack_callback_ # None
    /\ last.pre_buffer = 6
    /\ last.data = <<CIV_EOM>>
    /\ IsAckFrame(last.trace[1].tail)
    /\ last.trace[1].fired = 0
    /\ rx_buffer_ = <<>>

\* C29: Kenwood and Icom: after every byte processed by process_response,
\* and so between calls, the parse buffer holds at most 256 bytes and no
\* terminator (';' resp. 0xFD); a byte other than the terminator that makes
\* the buffer longer than 256 empties it, the byte included, without an
\* acknowledgment, a shorter buffer keeps every byte; process_response
\* changes nothing but the buffer.
C29_ParseBufferInvariant ==
    [][ HasBuffer =>
           /\ Len(rx_buffer_') <= RX_LIMIT
           /\ \A i \in DOMAIN rx_buffer_' : rx_buffer_'[i] # Terminator
           /\ last'.op = "process_response" =>
                 /\ \A i \in DOMAIN last'.trace :
                       LET e == last'.trace[i]
                       IN  /\ e.size <= RX_LIMIT
                           /\ e.byte = Terminator => e.size = 0
                           /\ (e.byte # Terminator /\ e.flen > RX_LIMIT) =>
                                  e.size = 0 /\ e.fired = 0
                           /\ (e.byte # Terminator /\ e.flen <= RX_LIMIT) =>
                                  e.size = e.flen /\ e.fired = 0
                 /\ UNCHANGED <<kind, serial_, radio_addr_, ready_,
                                transmitting_, current_channel_,
                                send_callback_, ack_callback_>>
      ]_vars

C29_Witness ==
    /\ HasBuffer
    /\ last.op = "process_response"
    /\ ack_callback_ # None
    /\ last.pre_buffer = RX_LIMIT
    /\ Len(last.data) = 2
    /\ last.trace[1].byte # Terminator
    /\ last.trace[1].flen = RX_LIMIT + 1
    /\ last.trace[1].size = 0
    /\ last.acks = <<>>
    /\ rx_buffer_ = <<last.data[2]>>

\* one call of Kenwood or Icom process_response on an object whose parse
\* buffer is buf
CallFrom(buf, data) ==
    LET st == [buf |-> buf, acks |-> <<>>, trace |-> <<>>]
    IN  IF IsKenwood THEN Kenwood_process_response(st, data)
        ELSE IcomCiv_process_response(st, data)

RECURSIVE CutsFrom(_, _, _)
\* the nondecreasing sequences of m offsets in lo..n
CutsFrom(lo, n, m) ==
    IF m = 0 THEN {<<>>}
    ELSE UNION { { <<k>> \o c : c \in CutsFrom(k, n, m - 1) } : k \in lo..n }

\* the ways to cut a stream of n bytes into calls: the offsets after which a
\* new call starts, in order; equal offsets give calls of length zero
Cuts(n) == UNION { CutsFrom(0, n, m) : m \in 0..(n + 1) }

CutTable == [n \in 0..(MaxSplit + 1) |-> Cuts(n)]

\* the bytes of call j
Piece(data, c, j) ==
    SubSeq(data, (IF j = 1 THEN 0 ELSE c[j - 1]) + 1,
                 IF j = Len(c) + 1 THEN Len(data) ELSE c[j])

RECURSIVE FeedFrom(_, _, _, _)
\* calls j, j + 1, ... made one after the other, each continuing with the
\* buffer the one before left; acknowledgments and per-byte records are
\* collected in order
FeedFrom(st, data, c, j) ==
    IF j > Len(c) + 1 THEN st
    ELSE CHOOSE after \in
             { FeedFrom([buf |-> r.buf, acks |-> st.acks \o r.acks,
                         trace |-> st.trace \o r.trace], data, c, j + 1) :
                   r \in {CallFrom(st.buf, Piece(data, c, j))} } : TRUE

\* C30: Kenwood and Icom process_response: feeding a byte stream in one
\* call, or cut at arbitrary points into several calls (one byte per call
\* and calls of length zero included), gives the same acknowledge
\* invocations at the same bytes and the same final parse buffer.
C30_SplitCallsAgree ==
    [][ (HasBuffer /\ last'.op = "process_response") =>
           \A c \in CutTable[Len(last'.data)] :
               \A r \in {FeedFrom([buf |-> rx_buffer_, acks |-> <<>>,
                                   trace |-> <<>>], last'.data, c, 1)} :
                   /\ r.buf = rx_buffer_'
                   /\ r.acks = last'.acks
                   /\ Len(r.trace) = Len(last'.data)
                   /\ \A i \in DOMAIN r.trace :
                          r.trace[i].fired = last'.trace[i].fired
      ]_vars

C30_Witness ==
    /\ kind = "IcomCiv"
    /\ last.op = "process_response"
    /\ ack_callback_ # None
    /\ last.pre_buffer = 3
    /\ last.data = <<CIV_PREAMBLE, CIV_ACK, CIV_EOM>>
    /\ last.trace[3].fired = 1
    /\ Len(last.acks) = 1
    /\ rx_buffer_ = <<>>

\* return value of measure_frequency_power, sqrt(real^2 + imag^2) / count,
\* is below 1/10: real and imag are brought to hundredths and rounded away
\* from zero, so that (|real| + 1)^2 + (|imag| + 1)^2 < (count * 100 / 10)^2
Abs(x) == IF x < 0 THEN -x ELSE x

PowerBelowTenth(t) ==
    LET hundredth == (TRIG_UNIT * TRIG_UNIT) \div 100
        r == (Abs(t.re) \div hundredth) + 1
        i == (Abs(t.im) \div hundredth) + 1
    IN  r * r + i * i < (t.n * 10) * (t.n * 10)

\* C27: decimating by 6 a 5 kHz tone sampled at 48 kHz (4800 samples)
\* leaves less than 0.1 normalized power at 3 kHz in the 8 kHz output.
C27_AliasBelowThreshold ==
    (tone.on /\ Len(written) = TONE_SAMPLES) =>
        /\ tone.n = TONE_SAMPLES \div DEFAULT_RATIO
        /\ ~tone.nan
        /\ PowerBelowTenth(tone)

C27_Witness ==
    /\ tone.on
    /\ Len(written) = TONE_SAMPLES
    /\ tone.n = 800
    /\ tone.re # 0
    /\ tone.im # 0

\* f mod 10^9, from the nine low decimal digits of f
Low9(f) ==
    U32OfDec(DigitsValue([i \in 1..5 |-> Digit(f, i + 3)], 5),
             DigitsValue([i \in 1..4 |-> Digit(f, i - 1)], 4))

\* C31: Yaesu set_channel on a ready codec (with its serial collaborator)
\* with rx_frequency f >= 1,000,000,000 returns true, emits the packed BCD
\* of floor(f/10) mod 10^8, which are the four bytes emitted for f mod 10^9
\* and hold decimal digits only, and stores f unmodified, so that the stored
\* frequency differs from the one on the wire.
C31_YaesuOverflowUnguarded ==
    (/\ kind = "YaesuCat"
     /\ last.op = "set_channel"
     /\ last.pre_ready
     /\ serial_
     /\ Digit(last.channel.rx_frequency, 9) # 0) =>
        LET f == last.channel.rx_frequency
        IN  /\ last.ret
            /\ Len(last.sent) = 2
            /\ \A wire \in {SubSeq(last.sent[1].bytes, 1, 4)} :
                  /\ wire = [i \in 1..4 |-> 16 * DigitOfTenth(f, 9 - 2 * i)
                                             + DigitOfTenth(f, 8 - 2 * i)]
                  /\ wire = freq_to_packed_bcd(Low9(f))
                  /\ Nibbles(wire) \subseteq 0..9
                  /\ packed_bcd_to_freq(wire) # f
            /\ current_channel_.rx_frequency = f

C31_Witness ==
    /\ kind = "YaesuCat"
    /\ last.op = "set_channel"
    /\ last.ret
    /\ last.channel.rx_frequency = U32OfDec(123456, 7890)
    /\ last.sent[1].bytes = <<35, 69, 103, 137, 1>>
    /\ current_channel_.rx_frequency = U32OfDec(123456, 7890)

RECURSIVE SumTaps(_, _, _)
\* sum over taps i, i + 1, ..., N - 1 of coeffs[i] * x[j - (N - 1) + i], the
\* stream x being indexed from 0 and x[k] = 0 for k < 0
SumTaps(x, j, i) ==
    IF i >= total_taps_ THEN 0
    ELSE LET k == j - (total_taps_ - 1) + i
         IN  coeffs_[i + 1].v * (IF k < 0 THEN 0 ELSE x[k + 1])
             + SumTaps(x, j, i + 1)

\* the same sum as a filter output: not a number when a coefficient is not
FilterAt(x, j) ==
    IF \E i \in DOMAIN coeffs_ : coeffs_[i].nan THEN NaN
    ELSE Num(SumTaps(x, j, 0))

\* C32: with N = R*T taps and x the samples pushed since construction or
\* reset, the output decimate produces after pushing sample j of x is the
\* sum over i in 0..N-1 of coeffs[i] * x[j-(N-1)+i], x[k] = 0 for k < 0:
\* coeffs[0] weights the oldest of the last N samples, coeffs[N-1] the one
\* just pushed. On a fresh or reset resampler x is the input of the call and
\* j + 1 runs over the multiples of R.
C32_DecimateFilterAlignment ==
    rs.op = "decimate" =>
        \A k \in DOMAIN rs.output :
            rs.output[k] = FilterAt(rs.pre_written \o rs.input,
                                    Len(rs.pre_written) + k * ratio_ - 1)

C32_Witness ==
    /\ rs.op = "decimate"
    /\ rs.prev = "reset"
    /\ rs.pre_written = <<>>
    /\ ratio_ = 2
    /\ taps_per_phase_ = 2
    /\ rs.input = <<0, 0, 0, 0, 1, 0>>
    /\ rs.output = <<Num(0), Num(0), Num(coeffs_[3].v)>>
    /\ coeffs_[3] # coeffs_[4]

\* s * R followed by R - 1 zeros for each sample s of the input, in order
Stuffed(input) ==
    [m \in 1..(Len(input) * ratio_) |->
        IF (m - 1) % ratio_ = 0 THEN input[((m - 1) \div ratio_) + 1] * ratio_
        ELSE 0]

\* C33: interpolate pushes, for each input sample s in order, s*R and then
\* R-1 zeros, and appends one filter output after each push; interpolating
\* a concatenated input gives the concatenation of the outputs of successive
\* calls on its pieces, and the same history.
C33_InterpolatePushesAndSplits ==
    rs.op = "interpolate" =>
        /\ written = rs.pre_written \o Stuffed(rs.input)
        /\ HistoryIsLatestWritten
        /\ Len(rs.output) = Len(rs.input) * ratio_
        /\ \A m \in DOMAIN rs.output :
              rs.output[m] = FilterAt(written, Len(rs.pre_written) + m - 1)
        /\ \A k \in 0..Len(rs.input) :
              \A a \in {interpolate_loop([history |-> rs.pre_history,
                                          pos |-> rs.pre_pos, out |-> <<>>],
                                         SubSeq(rs.input, 1, k), 0)} :
                  \A b \in {interpolate_loop([a EXCEPT !.out = <<>>],
                                SubSeq(rs.input, k + 1, Len(rs.input)), 0)} :
                      /\ rs.output = a.out \o b.out
                      /\ b.history = history_
                      /\ b.pos = history_pos_

C33_Witness ==
    /\ rs.op = "interpolate"
    /\ ratio_ = 2
    /\ taps_per_phase_ = 2
    /\ rs.input = <<1, 0, 1>>
    /\ rs.pre_written # <<>>
    /\ Len(rs.output) = 6
    /\ rs.output[6] = Num(2 * coeffs_[3].v)

\* C34: after any sequence of decimate, interpolate and reset calls on a
\* resampler with R >= 1 and T >= 1, 0 <= history_pos_ < R*T and the history
\* has R*T slots; decimate of n samples advances the position by n modulo
\* R*T and interpolate by n*R modulo R*T; the coefficients are those the
\* constructor designed. Both operations write the same history, so a
\* decimate is answered from what an interpolate pushed before it.
C34_ResamplerStateInvariant ==
    /\ ratio_ >= 1
    /\ taps_per_phase_ >= 1
    /\ total_taps_ = ratio_ * taps_per_phase_
    /\ history_pos_ \in 0..(ratio_ * taps_per_phase_ - 1)
    /\ Len(history_) = ratio_ * taps_per_phase_
    /\ Len(coeffs_) = ratio_ * taps_per_phase_
    /\ coeffs_ = design_filter(ratio_, taps_per_phase_)
    /\ rs.op = "decimate" =>
          history_pos_ = (rs.pre_pos + Len(rs.input)) % (ratio_ * taps_per_phase_)
    /\ rs.op = "interpolate" =>
          history_pos_ =
              (rs.pre_pos + Len(rs.input) * ratio_) % (ratio_ * taps_per_phase_)
    /\ (rs.op = "decimate" /\ rs.prev = "interpolate") =>
          \A k \in DOMAIN rs.output :
              rs.output[k] = FilterAt(rs.pre_written \o rs.input,
                                      Len(rs.pre_written) + k * ratio_ - 1)

C34_Witness ==
    /\ rs.op = "decimate"
    /\ rs.prev = "interpolate"
    /\ ratio_ = 2
    /\ taps_per_phase_ = 2
    /\ rs.pre_pos = 2
    /\ rs.pre_written = <<2, 0>>
    /\ rs.input = <<0, 0>>
    /\ history_pos_ = 0
    /\ rs.output = <<Num(2 * coeffs_[1].v)>>
    /\ rs.output # <<Num(0)>>

\* C35: process_response does the same before initialize, while ready and
\* after shutdown: it emits nothing and leaves the ready flag, the
\* transmitting flag and the stored channel as they were; the callback, when
\* registered, fires for every ';' (Kenwood, Elecraft), for every 0xFD that
\* closes an ACK frame (Icom), once per non-empty call (Yaesu); each byte is
\* buffered and each terminator or overflow clears the buffer, with or
\* without a callback.
C35_ProcessResponseIgnoresLifecycle ==
    last.op = "process_response" =>
        /\ last.sent = <<>>
        /\ ready_ = last.pre_ready
        /\ transmitting_ = last.pre_tx
        /\ current_channel_ = last.pre_channel
        /\ kind = "YaesuCat" =>
              /\ Len(last.acks) =
                    IF Len(last.data) > 0 /\ ack_callback_ # None THEN 1 ELSE 0
              /\ rx_buffer_ = <<>>
        /\ HasBuffer =>
              /\ Len(last.trace) = Len(last.data)
              /\ \A i \in DOMAIN last.trace :
                    LET e == last.trace[i]
                    IN  /\ e.byte = last.data[i]
                        /\ e.flen = 1 + (IF i = 1 THEN last.pre_buffer
                                         ELSE last.trace[i - 1].size)
                        /\ e.size = IF e.byte = Terminator \/ e.flen > RX_LIMIT
                                    THEN 0 ELSE e.flen
                        /\ e.fired =
                              IF /\ ack_callback_ # None
                                 /\ IF IsKenwood THEN e.byte = SEMICOLON
                                    ELSE AckTest(e)
                              THEN 1 ELSE 0
              /\ Len(rx_buffer_) =
                    IF last.data = <<>> THEN last.pre_buffer
                    ELSE last.trace[Len(last.data)].size

C35_Witness ==
    /\ kind = "Kenwood"
    /\ last.op = "process_response"
    /\ lifecycle = "shutdown"
    /\ ~ready_
    /\ transmitting_
    /\ current_channel_ # DefaultChannel
    /\ last.pre_buffer = 1
    /\ last.data = <<SEMICOLON, 65>>
    /\ Len(last.acks) = 1
    /\ rx_buffer_ = <<65>>

\* C36: shutdown and initialize emit nothing and leave the transmitting
\* flag and the stored channel as they were; is_transmitting returns the
\* flag; from shutdown until the next initialize the codec is not ready, and
\* a set_ptt on a codec that is not ready neither emits nor changes the
\* flag: after set_ptt(true) and shutdown the flag stays true, also through
\* set_ptt(false).
C36_ShutdownKeepsTransmitting ==
    /\ last.op \in {"initialize", "shutdown"} =>
          /\ last.sent = <<>>
          /\ transmitting_ = last.pre_tx
          /\ current_channel_ = last.pre_channel
    /\ last.op = "is_transmitting" => last.ret = transmitting_
    /\ lifecycle = "shutdown" => ~ready_
    /\ (last.op = "set_ptt" /\ lifecycle = "shutdown") =>
          /\ ~last.pre_ready
          /\ last.sent = <<>>
          /\ transmitting_ = last.pre_tx

C36_Witness ==
    /\ last.op = "set_ptt"
    /\ lifecycle = "shutdown"
    /\ serial_
    /\ send_callback_ # None
    /\ ~last.flag
    /\ last.pre_tx
    /\ transmitting_
    /\ last.sent = <<>>

\* the frames of a set_channel as a function of the codec class, the Icom
\* radio address, the receive frequency and the receive mode alone
EmittedFor(f, m) ==
    CASE IsKenwood ->
           << build_freq_command(65, f), build_mode_command(m) >>
      [] kind = "IcomCiv" ->
           << build_frame(radio_addr_, CIV_SET_FREQ, freq_to_bcd(f, 5)),
              build_frame(radio_addr_, CIV_SET_MODE, <<radio_mode_to_civ(m)>>) >>
      [] kind = "YaesuCat" ->
           << freq_to_packed_bcd(f) \o <<YAESU_SET_FREQ>>,
              <<radio_mode_to_yaesu(m), 0, 0, 0, YAESU_SET_MODE>> >>

\* C37: the bytes a set_channel emits are given by channel.rx_frequency and
\* channel.rx_mode (and the Icom radio address): they are the same whatever
\* channel was stored before and whatever the transmitting flag, and a
\* channel that differs only in id, tx_frequency, tx_mode, antenna, power,
\* attenuation or in_use is answered with the same emissions.
C37_EmissionsFromRxFieldsOnly ==
    (last.op = "set_channel" /\ last.ret) =>
        /\ [i \in DOMAIN last.sent |-> last.sent[i].bytes] =
              EmittedFor(last.channel.rx_frequency, last.channel.rx_mode)
        /\ \A c \in ChannelVariants :
              (/\ c.rx_frequency = last.channel.rx_frequency
               /\ c.rx_mode = last.channel.rx_mode) =>
                  set_channel(c).sent = last.sent

C37_Witness ==
    /\ kind = "Kenwood"
    /\ last.op = "set_channel"
    /\ last.ret
    /\ transmitting_
    /\ last.channel.power = 5
    /\ last.pre_channel.antenna = 2
    /\ last.pre_channel.rx_mode = last.channel.rx_mode
    /\ Len(last.sent) = 2

====
